---------------------------- MODULE Spec2Model ----------------------------
(***************************************************************************)
(* Trident TGUI9400CXi / TGUI9440 / TGUI96x0 graphics accelerator          *)
(* (src/src/video/vid_tgui9440.c): the register file, the command engine   *)
(* tgui_accel_command, the 256-entry raster-operation unit, the            *)
(* framebuffer aperture and the TGUI9400CXi extended write modes.          *)
(*                                                                         *)
(* Representation of C values:                                             *)
(*  - uint32_t data words (colours, flags, pixel data, cpu_dat) are        *)
(*    4-tuples of bytes, least significant byte first;                     *)
(*  - int16_t fields are integers in -32768..32767, stored through S16;    *)
(*  - uint32_t address fields (src, dst, src_old, dst_old) are held as the *)
(*    two's-complement reading of the 32-bit word; they are only ever used *)
(*    through "& mask" with mask = 2^k - 1, which is "% (mask + 1)";       *)
(*  - video memory is a byte array, held as the finite map of the bytes    *)
(*    written so far over a fixed initial content VramInit.                *)
(***************************************************************************)
EXTENDS Integers, Sequences, FiniteSets, TLC

VARIABLES
  tgui,   \* the device: tgui_t with its accel block, svga fields and vram
  last,   \* the last handler call: its name, arguments, result, pixel steps
  lanes,  \* replicas of the device fed the same data in other access widths
  todo,   \* the driver: the register writes of its set-up still to be made
  blit    \* the monitor's blit_data_t, its events, and where the worker,
          \* the producer and the closing thread stand in their code

vars == <<tgui, last, lanes, todo, blit>>

-----------------------------------------------------------------------------
(* Bit-level arithmetic of the C operators on unsigned values.             *)

Bit(v, k) == (v \div (2 ^ k)) % 2

\* a & b, a | b, a ^ b on bytes
And8(a, b) ==
  (((Bit(a, 0) * Bit(b, 0)) + (2 * (Bit(a, 1) * Bit(b, 1))))
    + ((4 * (Bit(a, 2) * Bit(b, 2))) + (8 * (Bit(a, 3) * Bit(b, 3)))))
  + (((16 * (Bit(a, 4) * Bit(b, 4))) + (32 * (Bit(a, 5) * Bit(b, 5))))
    + ((64 * (Bit(a, 6) * Bit(b, 6))) + (128 * (Bit(a, 7) * Bit(b, 7)))))
Or8(a, b)  == (a + b) - And8(a, b)
Xor8(a, b) == (a + b) - (2 * And8(a, b))

\* a & b, a | b on non-negative values of up to 16 bits
And16(a, b) == And8(a % 256, b % 256) + (256 * And8((a \div 256) % 256, (b \div 256) % 256))
Or16(a, b)  == (a + b) - And16(a, b)

\* (int16_t) v: the value is stored in 16 bits, two's complement
U16(v) == v % 65536
S16(v) == IF U16(v) >= 32768 THEN U16(v) - 65536 ELSE U16(v)
\* (uint8_t) v
U8(v)  == v % 256

\* uint32_t words as byte tuples, least significant byte first
U32Zero == <<0, 0, 0, 0>>
U32Ones == <<255, 255, 255, 255>>
\* v & 0xff, v & 0xffff
Mask8(a)  == <<a[1], 0, 0, 0>>
Mask16(a) == <<a[1], a[2], 0, 0>>
\* bit k (0..31) of a word
WBit(a, k) == Bit(a[(k \div 8) + 1], k % 8)

-----------------------------------------------------------------------------
(* The raster-operation unit: the ROPMIX macro, one case per code.         *)

\* a word as the set of the positions of its 1 bits, and back; the bitwise
\* operators ~, &, | and ^ of C act on these sets position by position
Bits(a) == {k \in 0..31 : WBit(a, k) = 1}
ByteAt(s, o) ==
  (((IF o \in s THEN 1 ELSE 0) + (IF (o + 1) \in s THEN 2 ELSE 0))
    + ((IF (o + 2) \in s THEN 4 ELSE 0) + (IF (o + 3) \in s THEN 8 ELSE 0)))
  + (((IF (o + 4) \in s THEN 16 ELSE 0) + (IF (o + 5) \in s THEN 32 ELSE 0))
    + ((IF (o + 6) \in s THEN 64 ELSE 0) + (IF (o + 7) \in s THEN 128 ELSE 0)))
Word(s) == [i \in 1..4 |-> ByteAt(s, 8 * (i - 1))]
BNot(a)    == (0..31) \ a
BAnd(a, b) == a \cap b
BOr(a, b)  == a \cup b
BXor(a, b) == (a \ b) \cup (b \ a)
ROPMIX(R, D, P, S) ==
  CASE R = 0 -> {}  \* 0x00: 0
    [] R = 1 -> BNot(BOr(D, BOr(P, S)))  \* 0x01: ~(D | (P | S))
    [] R = 2 -> BAnd(D, BNot(BOr(P, S)))  \* 0x02: D & ~(P | S)
    [] R = 3 -> BNot(BOr(P, S))  \* 0x03: ~(P | S)
    [] R = 4 -> BAnd(S, BNot(BOr(D, P)))  \* 0x04: S & ~(D | P)
    [] R = 5 -> BNot(BOr(D, P))  \* 0x05: ~(D | P)
    [] R = 6 -> BNot(BOr(P, BNot(BXor(D, S))))  \* 0x06: ~(P | ~(D ^ S))
    [] R = 7 -> BNot(BOr(P, BAnd(D, S)))  \* 0x07: ~(P | (D & S))
    [] R = 8 -> BAnd(S, BAnd(D, BNot(P)))  \* 0x08: S & (D & ~P)
    [] R = 9 -> BNot(BOr(P, BXor(D, S)))  \* 0x09: ~(P | (D ^ S))
    [] R = 10 -> BAnd(D, BNot(P))  \* 0x0a: D & ~P
    [] R = 11 -> BNot(BOr(P, BAnd(S, BNot(D))))  \* 0x0b: ~(P | (S & ~D))
    [] R = 12 -> BAnd(S, BNot(P))  \* 0x0c: S & ~P
    [] R = 13 -> BNot(BOr(P, BAnd(D, BNot(S))))  \* 0x0d: ~(P | (D & ~S))
    [] R = 14 -> BNot(BOr(P, BNot(BOr(D, S))))  \* 0x0e: ~(P | ~(D | S))
    [] R = 15 -> BNot(P)  \* 0x0f: ~P
    [] R = 16 -> BAnd(P, BNot(BOr(D, S)))  \* 0x10: P & ~(D | S)
    [] R = 17 -> BNot(BOr(D, S))  \* 0x11: ~(D | S)
    [] R = 18 -> BNot(BOr(S, BNot(BXor(D, P))))  \* 0x12: ~(S | ~(D ^ P))
    [] R = 19 -> BNot(BOr(S, BAnd(D, P)))  \* 0x13: ~(S | (D & P))
    [] R = 20 -> BNot(BOr(D, BNot(BXor(P, S))))  \* 0x14: ~(D | ~(P ^ S))
    [] R = 21 -> BNot(BOr(D, BAnd(P, S)))  \* 0x15: ~(D | (P & S))
    [] R = 22 -> BXor(P, BXor(S, BAnd(D, BNot(BAnd(P, S)))))  \* 0x16: P ^ (S ^ (D & ~(P & S)))
    [] R = 23 -> BNot(BXor(S, BAnd(BXor(S, P), BXor(D, S))))  \* 0x17: ~(S ^ ((S ^ P) & (D ^ S)))
    [] R = 24 -> BAnd(BXor(S, P), BXor(P, D))  \* 0x18: (S ^ P) & (P ^ D)
    [] R = 25 -> BNot(BXor(S, BAnd(D, BNot(BAnd(P, S)))))  \* 0x19: ~(S ^ (D & ~(P & S)))
    [] R = 26 -> BXor(P, BOr(D, BAnd(S, P)))  \* 0x1a: P ^ (D | (S & P))
    [] R = 27 -> BNot(BXor(S, BAnd(D, BXor(P, S))))  \* 0x1b: ~(S ^ (D & (P ^ S)))
    [] R = 28 -> BXor(P, BOr(S, BAnd(D, P)))  \* 0x1c: P ^ (S | (D & P))
    [] R = 29 -> BNot(BXor(D, BAnd(S, BXor(P, D))))  \* 0x1d: ~(D ^ (S & (P ^ D)))
    [] R = 30 -> BXor(P, BOr(D, S))  \* 0x1e: P ^ (D | S)
    [] R = 31 -> BNot(BAnd(P, BOr(D, S)))  \* 0x1f: ~(P & (D | S))
    [] R = 32 -> BAnd(D, BAnd(P, BNot(S)))  \* 0x20: D & (P & ~S)
    [] R = 33 -> BNot(BOr(S, BXor(D, P)))  \* 0x21: ~(S | (D ^ P))
    [] R = 34 -> BAnd(D, BNot(S))  \* 0x22: D & ~S
    [] R = 35 -> BNot(BOr(S, BAnd(P, BNot(D))))  \* 0x23: ~(S | (P & ~D))
    [] R = 36 -> BAnd(BXor(S, P), BXor(D, S))  \* 0x24: (S ^ P) & (D ^ S)
    [] R = 37 -> BNot(BXor(P, BAnd(D, BNot(BAnd(S, P)))))  \* 0x25: ~(P ^ (D & ~(S & P)))
    [] R = 38 -> BXor(S, BOr(D, BAnd(P, S)))  \* 0x26: S ^ (D | (P & S))
    [] R = 39 -> BXor(S, BOr(D, BNot(BXor(P, S))))  \* 0x27: S ^ (D | ~(P ^ S))
    [] R = 40 -> BAnd(D, BXor(P, S))  \* 0x28: D & (P ^ S)
    [] R = 41 -> BNot(BXor(P, BXor(S, BOr(D, BAnd(P, S)))))  \* 0x29: ~(P ^ (S ^ (D | (P & S))))
    [] R = 42 -> BAnd(D, BNot(BAnd(P, S)))  \* 0x2a: D & ~(P & S)
    [] R = 43 -> BNot(BXor(S, BAnd(BXor(S, P), BXor(P, D))))  \* 0x2b: ~(S ^ ((S ^ P) & (P ^ D)))
    [] R = 44 -> BXor(S, BAnd(P, BOr(D, S)))  \* 0x2c: S ^ (P & (D | S))
    [] R = 45 -> BXor(P, BOr(S, BNot(D)))  \* 0x2d: P ^ (S | ~D)
    [] R = 46 -> BXor(P, BOr(S, BXor(D, P)))  \* 0x2e: P ^ (S | (D ^ P))
    [] R = 47 -> BNot(BAnd(P, BOr(S, BNot(D))))  \* 0x2f: ~(P & (S | ~D))
    [] R = 48 -> BAnd(P, BNot(S))  \* 0x30: P & ~S
    [] R = 49 -> BNot(BOr(S, BAnd(D, BNot(P))))  \* 0x31: ~(S | (D & ~P))
    [] R = 50 -> BXor(S, BOr(D, BOr(P, S)))  \* 0x32: S ^ (D | (P | S))
    [] R = 51 -> BNot(S)  \* 0x33: ~S
    [] R = 52 -> BXor(S, BOr(P, BAnd(D, S)))  \* 0x34: S ^ (P | (D & S))
    [] R = 53 -> BXor(S, BOr(P, BNot(BXor(D, S))))  \* 0x35: S ^ (P | ~(D ^ S))
    [] R = 54 -> BXor(S, BOr(D, P))  \* 0x36: S ^ (D | P)
    [] R = 55 -> BNot(BAnd(S, BOr(D, P)))  \* 0x37: ~(S & (D | P))
    [] R = 56 -> BXor(P, BAnd(S, BOr(D, P)))  \* 0x38: P ^ (S & (D | P))
    [] R = 57 -> BXor(S, BOr(P, BNot(D)))  \* 0x39: S ^ (P | ~D)
    [] R = 58 -> BXor(S, BOr(P, BXor(D, S)))  \* 0x3a: S ^ (P | (D ^ S))
    [] R = 59 -> BNot(BAnd(S, BOr(P, BNot(D))))  \* 0x3b: ~(S & (P | ~D))
    [] R = 60 -> BXor(P, S)  \* 0x3c: P ^ S
    [] R = 61 -> BXor(S, BOr(P, BNot(BOr(D, S))))  \* 0x3d: S ^ (P | ~(D | S))
    [] R = 62 -> BXor(S, BOr(P, BAnd(D, BNot(S))))  \* 0x3e: S ^ (P | (D & ~S))
    [] R = 63 -> BNot(BAnd(P, S))  \* 0x3f: ~(P & S)
    [] R = 64 -> BAnd(P, BAnd(S, BNot(D)))  \* 0x40: P & (S & ~D)
    [] R = 65 -> BNot(BOr(D, BXor(P, S)))  \* 0x41: ~(D | (P ^ S))
    [] R = 66 -> BAnd(BXor(S, D), BXor(P, D))  \* 0x42: (S ^ D) & (P ^ D)
    [] R = 67 -> BNot(BXor(S, BAnd(P, BNot(BAnd(D, S)))))  \* 0x43: ~(S ^ (P & ~(D & S)))
    [] R = 68 -> BAnd(S, BNot(D))  \* 0x44: S & ~D
    [] R = 69 -> BNot(BOr(D, BAnd(P, BNot(S))))  \* 0x45: ~(D | (P & ~S))
    [] R = 70 -> BXor(D, BOr(S, BAnd(P, D)))  \* 0x46: D ^ (S | (P & D))
    [] R = 71 -> BNot(BXor(P, BAnd(S, BXor(D, P))))  \* 0x47: ~(P ^ (S & (D ^ P)))
    [] R = 72 -> BAnd(S, BXor(D, P))  \* 0x48: S & (D ^ P)
    [] R = 73 -> BNot(BXor(P, BXor(D, BOr(S, BAnd(P, D)))))  \* 0x49: ~(P ^ (D ^ (S | (P & D))))
    [] R = 74 -> BXor(D, BAnd(P, BOr(S, D)))  \* 0x4a: D ^ (P & (S | D))
    [] R = 75 -> BXor(P, BOr(D, BNot(S)))  \* 0x4b: P ^ (D | ~S)
    [] R = 76 -> BAnd(S, BNot(BAnd(D, P)))  \* 0x4c: S & ~(D & P)
    [] R = 77 -> BNot(BXor(S, BOr(BXor(S, P), BXor(D, S))))  \* 0x4d: ~(S ^ ((S ^ P) | (D ^ S)))
    [] R = 78 -> BXor(P, BOr(D, BXor(S, P)))  \* 0x4e: P ^ (D | (S ^ P))
    [] R = 79 -> BNot(BAnd(P, BOr(D, BNot(S))))  \* 0x4f: ~(P & (D | ~S))
    [] R = 80 -> BAnd(P, BNot(D))  \* 0x50: P & ~D
    [] R = 81 -> BNot(BOr(D, BAnd(S, BNot(P))))  \* 0x51: ~(D | (S & ~P))
    [] R = 82 -> BXor(D, BOr(P, BAnd(S, D)))  \* 0x52: D ^ (P | (S & D))
    [] R = 83 -> BNot(BXor(S, BAnd(P, BXor(D, S))))  \* 0x53: ~(S ^ (P & (D ^ S)))
    [] R = 84 -> BNot(BOr(D, BNot(BOr(P, S))))  \* 0x54: ~(D | ~(P | S))
    [] R = 85 -> BNot(D)  \* 0x55: ~D
    [] R = 86 -> BXor(D, BOr(P, S))  \* 0x56: D ^ (P | S)
    [] R = 87 -> BNot(BAnd(D, BOr(P, S)))  \* 0x57: ~(D & (P | S))
    [] R = 88 -> BXor(P, BAnd(D, BOr(S, P)))  \* 0x58: P ^ (D & (S | P))
    [] R = 89 -> BXor(D, BOr(P, BNot(S)))  \* 0x59: D ^ (P | ~S)
    [] R = 90 -> BXor(D, P)  \* 0x5a: D ^ P
    [] R = 91 -> BXor(D, BOr(P, BNot(BOr(S, D))))  \* 0x5b: D ^ (P | ~(S | D))
    [] R = 92 -> BXor(D, BOr(P, BXor(S, D)))  \* 0x5c: D ^ (P | (S ^ D))
    [] R = 93 -> BNot(BAnd(D, BOr(P, BNot(S))))  \* 0x5d: ~(D & (P | ~S))
    [] R = 94 -> BXor(D, BOr(P, BAnd(S, BNot(D))))  \* 0x5e: D ^ (P | (S & ~D))
    [] R = 95 -> BNot(BAnd(D, P))  \* 0x5f: ~(D & P)
    [] R = 96 -> BAnd(P, BXor(D, S))  \* 0x60: P & (D ^ S)
    [] R = 97 -> BNot(BXor(D, BXor(S, BOr(P, BAnd(D, S)))))  \* 0x61: ~(D ^ (S ^ (P | (D & S))))
    [] R = 98 -> BXor(D, BAnd(S, BOr(P, D)))  \* 0x62: D ^ (S & (P | D))
    [] R = 99 -> BXor(S, BOr(D, BNot(P)))  \* 0x63: S ^ (D | ~P)
    [] R = 100 -> BXor(S, BAnd(D, BOr(P, S)))  \* 0x64: S ^ (D & (P | S))
    [] R = 101 -> BXor(D, BOr(S, BNot(P)))  \* 0x65: D ^ (S | ~P)
    [] R = 102 -> BXor(D, S)  \* 0x66: D ^ S
    [] R = 103 -> BXor(S, BOr(D, BNot(BOr(P, S))))  \* 0x67: S ^ (D | ~(P | S))
    [] R = 104 -> BNot(BXor(D, BXor(S, BOr(P, BNot(BOr(D, S))))))  \* 0x68: ~(D ^ (S ^ (P | ~(D | S))))
    [] R = 105 -> BNot(BXor(P, BXor(D, S)))  \* 0x69: ~(P ^ (D ^ S))
    [] R = 106 -> BXor(D, BAnd(P, S))  \* 0x6a: D ^ (P & S)
    [] R = 107 -> BNot(BXor(P, BXor(S, BAnd(D, BOr(P, S)))))  \* 0x6b: ~(P ^ (S ^ (D & (P | S))))
    [] R = 108 -> BXor(S, BAnd(D, P))  \* 0x6c: S ^ (D & P)
    [] R = 109 -> BNot(BXor(P, BXor(D, BAnd(S, BOr(P, D)))))  \* 0x6d: ~(P ^ (D ^ (S & (P | D))))
    [] R = 110 -> BXor(S, BAnd(D, BOr(P, BNot(S))))  \* 0x6e: S ^ (D & (P | ~S))
    [] R = 111 -> BNot(BAnd(P, BNot(BXor(D, S))))  \* 0x6f: ~(P & ~(D ^ S))
    [] R = 112 -> BAnd(P, BNot(BAnd(D, S)))  \* 0x70: P & ~(D & S)
    [] R = 113 -> BNot(BXor(S, BAnd(BXor(S, D), BXor(P, D))))  \* 0x71: ~(S ^ ((S ^ D) & (P ^ D)))
    [] R = 114 -> BXor(S, BOr(D, BXor(P, S)))  \* 0x72: S ^ (D | (P ^ S))
    [] R = 115 -> BNot(BAnd(S, BOr(D, BNot(P))))  \* 0x73: ~(S & (D | ~P))
    [] R = 116 -> BXor(D, BOr(S, BXor(P, D)))  \* 0x74: D ^ (S | (P ^ D))
    [] R = 117 -> BNot(BAnd(D, BOr(S, BNot(P))))  \* 0x75: ~(D & (S | ~P))
    [] R = 118 -> BXor(S, BOr(D, BAnd(P, BNot(S))))  \* 0x76: S ^ (D | (P & ~S))
    [] R = 119 -> BNot(BAnd(D, S))  \* 0x77: ~(D & S)
    [] R = 120 -> BXor(P, BAnd(D, S))  \* 0x78: P ^ (D & S)
    [] R = 121 -> BNot(BXor(D, BXor(S, BAnd(P, BOr(D, S)))))  \* 0x79: ~(D ^ (S ^ (P & (D | S))))
    [] R = 122 -> BXor(D, BAnd(P, BOr(S, BNot(D))))  \* 0x7a: D ^ (P & (S | ~D))
    [] R = 123 -> BNot(BAnd(S, BNot(BXor(D, P))))  \* 0x7b: ~(S & ~(D ^ P))
    [] R = 124 -> BXor(S, BAnd(P, BOr(D, BNot(S))))  \* 0x7c: S ^ (P & (D | ~S))
    [] R = 125 -> BNot(BAnd(D, BNot(BXor(P, S))))  \* 0x7d: ~(D & ~(P ^ S))
    [] R = 126 -> BOr(BXor(S, P), BXor(D, S))  \* 0x7e: (S ^ P) | (D ^ S)
    [] R = 127 -> BNot(BAnd(D, BAnd(P, S)))  \* 0x7f: ~(D & (P & S))
    [] R = 128 -> BAnd(D, BAnd(P, S))  \* 0x80: D & (P & S)
    [] R = 129 -> BNot(BOr(BXor(S, P), BXor(D, S)))  \* 0x81: ~((S ^ P) | (D ^ S))
    [] R = 130 -> BAnd(D, BNot(BXor(P, S)))  \* 0x82: D & ~(P ^ S)
    [] R = 131 -> BNot(BXor(S, BAnd(P, BOr(D, BNot(S)))))  \* 0x83: ~(S ^ (P & (D | ~S)))
    [] R = 132 -> BAnd(S, BNot(BXor(D, P)))  \* 0x84: S & ~(D ^ P)
    [] R = 133 -> BNot(BXor(P, BAnd(D, BOr(S, BNot(P)))))  \* 0x85: ~(P ^ (D & (S | ~P)))
    [] R = 134 -> BXor(D, BXor(S, BAnd(P, BOr(D, S))))  \* 0x86: D ^ (S ^ (P & (D | S)))
    [] R = 135 -> BNot(BXor(P, BAnd(D, S)))  \* 0x87: ~(P ^ (D & S))
    [] R = 136 -> BAnd(D, S)  \* 0x88: D & S
    [] R = 137 -> BNot(BXor(S, BOr(D, BAnd(P, BNot(S)))))  \* 0x89: ~(S ^ (D | (P & ~S)))
    [] R = 138 -> BAnd(D, BOr(S, BNot(P)))  \* 0x8a: D & (S | ~P)
    [] R = 139 -> BNot(BXor(D, BOr(S, BXor(P, D))))  \* 0x8b: ~(D ^ (S | (P ^ D)))
    [] R = 140 -> BAnd(S, BOr(D, BNot(P)))  \* 0x8c: S & (D | ~P)
    [] R = 141 -> BNot(BXor(S, BOr(D, BXor(P, S))))  \* 0x8d: ~(S ^ (D | (P ^ S)))
    [] R = 142 -> BXor(S, BAnd(BXor(S, D), BXor(P, D)))  \* 0x8e: S ^ ((S ^ D) & (P ^ D))
    [] R = 143 -> BNot(BAnd(P, BNot(BAnd(D, S))))  \* 0x8f: ~(P & ~(D & S))
    [] R = 144 -> BAnd(P, BNot(BXor(D, S)))  \* 0x90: P & ~(D ^ S)
    [] R = 145 -> BNot(BXor(S, BAnd(D, BOr(P, BNot(S)))))  \* 0x91: ~(S ^ (D & (P | ~S)))
    [] R = 146 -> BXor(D, BXor(P, BAnd(S, BOr(D, P))))  \* 0x92: D ^ (P ^ (S & (D | P)))
    [] R = 147 -> BNot(BXor(S, BAnd(P, D)))  \* 0x93: ~(S ^ (P & D))
    [] R = 148 -> BXor(P, BXor(S, BAnd(D, BOr(P, S))))  \* 0x94: P ^ (S ^ (D & (P | S)))
    [] R = 149 -> BNot(BXor(D, BAnd(P, S)))  \* 0x95: ~(D ^ (P & S))
    [] R = 150 -> BXor(D, BXor(P, S))  \* 0x96: D ^ (P ^ S)
    [] R = 151 -> BXor(P, BXor(S, BOr(D, BNot(BOr(P, S)))))  \* 0x97: P ^ (S ^ (D | ~(P | S)))
    [] R = 152 -> BNot(BXor(S, BOr(D, BNot(BOr(P, S)))))  \* 0x98: ~(S ^ (D | ~(P | S)))
    [] R = 153 -> BNot(BXor(D, S))  \* 0x99: ~(D ^ S)
    [] R = 154 -> BXor(D, BAnd(P, BNot(S)))  \* 0x9a: D ^ (P & ~S)
    [] R = 155 -> BNot(BXor(S, BAnd(D, BOr(P, S))))  \* 0x9b: ~(S ^ (D & (P | S)))
    [] R = 156 -> BXor(S, BAnd(P, BNot(D)))  \* 0x9c: S ^ (P & ~D)
    [] R = 157 -> BNot(BXor(D, BAnd(S, BOr(P, D))))  \* 0x9d: ~(D ^ (S & (P | D)))
    [] R = 158 -> BXor(D, BXor(S, BOr(P, BAnd(D, S))))  \* 0x9e: D ^ (S ^ (P | (D & S)))
    [] R = 159 -> BNot(BAnd(P, BXor(D, S)))  \* 0x9f: ~(P & (D ^ S))
    [] R = 160 -> BAnd(D, P)  \* 0xa0: D & P
    [] R = 161 -> BNot(BXor(P, BOr(D, BAnd(S, BNot(P)))))  \* 0xa1: ~(P ^ (D | (S & ~P)))
    [] R = 162 -> BAnd(D, BOr(P, BNot(S)))  \* 0xa2: D & (P | ~S)
    [] R = 163 -> BNot(BXor(D, BOr(P, BXor(S, D))))  \* 0xa3: ~(D ^ (P | (S ^ D)))
    [] R = 164 -> BNot(BXor(P, BOr(D, BNot(BOr(S, P)))))  \* 0xa4: ~(P ^ (D | ~(S | P)))
    [] R = 165 -> BNot(BXor(P, D))  \* 0xa5: ~(P ^ D)
    [] R = 166 -> BXor(D, BAnd(S, BNot(P)))  \* 0xa6: D ^ (S & ~P)
    [] R = 167 -> BNot(BXor(P, BAnd(D, BOr(S, P))))  \* 0xa7: ~(P ^ (D & (S | P)))
    [] R = 168 -> BAnd(D, BOr(P, S))  \* 0xa8: D & (P | S)
    [] R = 169 -> BNot(BXor(D, BOr(P, S)))  \* 0xa9: ~(D ^ (P | S))
    [] R = 170 -> D  \* 0xaa: D
    [] R = 171 -> BOr(D, BNot(BOr(P, S)))  \* 0xab: D | ~(P | S)
    [] R = 172 -> BXor(S, BAnd(P, BXor(D, S)))  \* 0xac: S ^ (P & (D ^ S))
    [] R = 173 -> BNot(BXor(D, BOr(P, BAnd(S, D))))  \* 0xad: ~(D ^ (P | (S & D)))
    [] R = 174 -> BOr(D, BAnd(S, BNot(P)))  \* 0xae: D | (S & ~P)
    [] R = 175 -> BOr(D, BNot(P))  \* 0xaf: D | ~P
    [] R = 176 -> BAnd(P, BOr(D, BNot(S)))  \* 0xb0: P & (D | ~S)
    [] R = 177 -> BNot(BXor(P, BOr(D, BXor(S, P))))  \* 0xb1: ~(P ^ (D | (S ^ P)))
    [] R = 178 -> BXor(S, BOr(BXor(S, P), BXor(D, S)))  \* 0xb2: S ^ ((S ^ P) | (D ^ S))
    [] R = 179 -> BNot(BAnd(S, BNot(BAnd(D, P))))  \* 0xb3: ~(S & ~(D & P))
    [] R = 180 -> BXor(P, BAnd(S, BNot(D)))  \* 0xb4: P ^ (S & ~D)
    [] R = 181 -> BNot(BXor(D, BAnd(P, BOr(S, D))))  \* 0xb5: ~(D ^ (P & (S | D)))
    [] R = 182 -> BXor(D, BXor(P, BOr(S, BAnd(D, P))))  \* 0xb6: D ^ (P ^ (S | (D & P)))
    [] R = 183 -> BNot(BAnd(S, BXor(D, P)))  \* 0xb7: ~(S & (D ^ P))
    [] R = 184 -> BXor(P, BAnd(S, BXor(D, P)))  \* 0xb8: P ^ (S & (D ^ P))
    [] R = 185 -> BNot(BXor(D, BOr(S, BAnd(P, D))))  \* 0xb9: ~(D ^ (S | (P & D)))
    [] R = 186 -> BOr(D, BAnd(P, BNot(S)))  \* 0xba: D | (P & ~S)
    [] R = 187 -> BOr(D, BNot(S))  \* 0xbb: D | ~S
    [] R = 188 -> BXor(S, BAnd(P, BNot(BAnd(D, S))))  \* 0xbc: S ^ (P & ~(D & S))
    [] R = 189 -> BNot(BAnd(BXor(S, D), BXor(P, D)))  \* 0xbd: ~((S ^ D) & (P ^ D))
    [] R = 190 -> BOr(D, BXor(P, S))  \* 0xbe: D | (P ^ S)
    [] R = 191 -> BOr(D, BNot(BAnd(P, S)))  \* 0xbf: D | ~(P & S)
    [] R = 192 -> BAnd(P, S)  \* 0xc0: P & S
    [] R = 193 -> BNot(BXor(S, BOr(P, BAnd(D, BNot(S)))))  \* 0xc1: ~(S ^ (P | (D & ~S)))
    [] R = 194 -> BNot(BXor(S, BOr(P, BNot(BOr(D, S)))))  \* 0xc2: ~(S ^ (P | ~(D | S)))
    [] R = 195 -> BNot(BXor(P, S))  \* 0xc3: ~(P ^ S)
    [] R = 196 -> BAnd(S, BOr(P, BNot(D)))  \* 0xc4: S & (P | ~D)
    [] R = 197 -> BNot(BXor(S, BOr(P, BXor(D, S))))  \* 0xc5: ~(S ^ (P | (D ^ S)))
    [] R = 198 -> BXor(S, BAnd(D, BNot(P)))  \* 0xc6: S ^ (D & ~P)
    [] R = 199 -> BNot(BXor(P, BAnd(S, BOr(D, P))))  \* 0xc7: ~(P ^ (S & (D | P)))
    [] R = 200 -> BAnd(S, BOr(D, P))  \* 0xc8: S & (D | P)
    [] R = 201 -> BNot(BXor(S, BOr(P, D)))  \* 0xc9: ~(S ^ (P | D))
    [] R = 202 -> BXor(D, BAnd(P, BXor(S, D)))  \* 0xca: D ^ (P & (S ^ D))
    [] R = 203 -> BNot(BXor(S, BOr(P, BAnd(D, S))))  \* 0xcb: ~(S ^ (P | (D & S)))
    [] R = 204 -> S  \* 0xcc: S
    [] R = 205 -> BOr(S, BNot(BOr(D, P)))  \* 0xcd: S | ~(D | P)
    [] R = 206 -> BOr(S, BAnd(D, BNot(P)))  \* 0xce: S | (D & ~P)
    [] R = 207 -> BOr(S, BNot(P))  \* 0xcf: S | ~P
    [] R = 208 -> BAnd(P, BOr(S, BNot(D)))  \* 0xd0: P & (S | ~D)
    [] R = 209 -> BNot(BXor(P, BOr(S, BXor(D, P))))  \* 0xd1: ~(P ^ (S | (D ^ P)))
    [] R = 210 -> BXor(P, BAnd(D, BNot(S)))  \* 0xd2: P ^ (D & ~S)
    [] R = 211 -> BNot(BXor(S, BAnd(P, BOr(D, S))))  \* 0xd3: ~(S ^ (P & (D | S)))
    [] R = 212 -> BXor(S, BAnd(BXor(S, P), BXor(P, D)))  \* 0xd4: S ^ ((S ^ P) & (P ^ D))
    [] R = 213 -> BNot(BAnd(D, BNot(BAnd(P, S))))  \* 0xd5: ~(D & ~(P & S))
    [] R = 214 -> BXor(P, BXor(S, BOr(D, BAnd(P, S))))  \* 0xd6: P ^ (S ^ (D | (P & S)))
    [] R = 215 -> BNot(BAnd(D, BXor(P, S)))  \* 0xd7: ~(D & (P ^ S))
    [] R = 216 -> BXor(P, BAnd(D, BXor(S, P)))  \* 0xd8: P ^ (D & (S ^ P))
    [] R = 217 -> BNot(BXor(S, BOr(D, BAnd(P, S))))  \* 0xd9: ~(S ^ (D | (P & S)))
    [] R = 218 -> BXor(D, BAnd(P, BNot(BAnd(S, D))))  \* 0xda: D ^ (P & ~(S & D))
    [] R = 219 -> BNot(BAnd(BXor(S, P), BXor(D, S)))  \* 0xdb: ~((S ^ P) & (D ^ S))
    [] R = 220 -> BOr(S, BAnd(P, BNot(D)))  \* 0xdc: S | (P & ~D)
    [] R = 221 -> BOr(S, BNot(D))  \* 0xdd: S | ~D
    [] R = 222 -> BOr(S, BXor(D, P))  \* 0xde: S | (D ^ P)
    [] R = 223 -> BOr(S, BNot(BAnd(D, P)))  \* 0xdf: S | ~(D & P)
    [] R = 224 -> BAnd(P, BOr(D, S))  \* 0xe0: P & (D | S)
    [] R = 225 -> BNot(BXor(P, BOr(D, S)))  \* 0xe1: ~(P ^ (D | S))
    [] R = 226 -> BXor(D, BAnd(S, BXor(P, D)))  \* 0xe2: D ^ (S & (P ^ D))
    [] R = 227 -> BNot(BXor(P, BOr(S, BAnd(D, P))))  \* 0xe3: ~(P ^ (S | (D & P)))
    [] R = 228 -> BXor(S, BAnd(D, BXor(P, S)))  \* 0xe4: S ^ (D & (P ^ S))
    [] R = 229 -> BNot(BXor(P, BOr(D, BAnd(S, P))))  \* 0xe5: ~(P ^ (D | (S & P)))
    [] R = 230 -> BXor(S, BAnd(D, BNot(BAnd(P, S))))  \* 0xe6: S ^ (D & ~(P & S))
    [] R = 231 -> BNot(BAnd(BXor(S, P), BXor(P, D)))  \* 0xe7: ~((S ^ P) & (P ^ D))
    [] R = 232 -> BXor(S, BAnd(BXor(S, P), BXor(D, S)))  \* 0xe8: S ^ ((S ^ P) & (D ^ S))
    [] R = 233 -> BNot(BXor(D, BXor(S, BAnd(P, BNot(BAnd(D, S))))))  \* 0xe9: ~(D ^ (S ^ (P & ~(D & S))))
    [] R = 234 -> BOr(D, BAnd(P, S))  \* 0xea: D | (P & S)
    [] R = 235 -> BOr(D, BNot(BXor(P, S)))  \* 0xeb: D | ~(P ^ S)
    [] R = 236 -> BOr(S, BAnd(D, P))  \* 0xec: S | (D & P)
    [] R = 237 -> BOr(S, BNot(BXor(D, P)))  \* 0xed: S | ~(D ^ P)
    [] R = 238 -> BOr(D, S)  \* 0xee: D | S
    [] R = 239 -> BOr(S, BOr(D, BNot(P)))  \* 0xef: S | (D | ~P)
    [] R = 240 -> P  \* 0xf0: P
    [] R = 241 -> BOr(P, BNot(BOr(D, S)))  \* 0xf1: P | ~(D | S)
    [] R = 242 -> BOr(P, BAnd(D, BNot(S)))  \* 0xf2: P | (D & ~S)
    [] R = 243 -> BOr(P, BNot(S))  \* 0xf3: P | ~S
    [] R = 244 -> BOr(P, BAnd(S, BNot(D)))  \* 0xf4: P | (S & ~D)
    [] R = 245 -> BOr(P, BNot(D))  \* 0xf5: P | ~D
    [] R = 246 -> BOr(P, BXor(D, S))  \* 0xf6: P | (D ^ S)
    [] R = 247 -> BOr(P, BNot(BAnd(D, S)))  \* 0xf7: P | ~(D & S)
    [] R = 248 -> BOr(P, BAnd(D, S))  \* 0xf8: P | (D & S)
    [] R = 249 -> BOr(P, BNot(BXor(D, S)))  \* 0xf9: P | ~(D ^ S)
    [] R = 250 -> BOr(D, P)  \* 0xfa: D | P
    [] R = 251 -> BOr(D, BOr(P, BNot(S)))  \* 0xfb: D | (P | ~S)
    [] R = 252 -> BOr(P, S)  \* 0xfc: P | S
    [] R = 253 -> BOr(P, BOr(S, BNot(D)))  \* 0xfd: P | (S | ~D)
    [] R = 254 -> BOr(D, BOr(P, S))  \* 0xfe: D | (P | S)
    [] R = 255 -> BNot({})  \* 0xff: ~0

\* MIX(): out = 0; ROPMIX(tgui->accel.rop, dst_dat, pat_dat, src_dat, out)
\* The same macro with the pattern and source operands exchanged.
MIX_swapped(t, dst_dat, pat_dat, src_dat) ==
  Word(ROPMIX(t.rop, Bits(dst_dat), Bits(src_dat), Bits(pat_dat)))

MIX(t, dst_dat, pat_dat, src_dat) ==
  Word(ROPMIX(t.rop, Bits(dst_dat), Bits(pat_dat), Bits(src_dat)))

-----------------------------------------------------------------------------
(* Program constants.                                                      *)

TGUI_9400CXI == 0
TGUI_9440    == 1
TGUI_9660    == 2
TGUI_9680    == 3

TGUI_BITBLT        == 1
TGUI_SCANLINE      == 3
TGUI_BRESENHAMLINE == 4
TGUI_SHORTVECTOR   == 5
TGUI_FASTLINE      == 6

\* accel.flags bits (the TGUI_SRC... enum)
TGUI_SRCCPU    == 0
TGUI_SRCPAT    == 2      \* 0x02
TGUI_SRCDISP   == 4      \* 0x04
TGUI_PATMONO   == 32     \* 0x20
TGUI_SRCMONO   == 64     \* 0x40
TGUI_TRANSENA  == 4096   \* 0x1000
TGUI_TRANSREV  == 8192   \* 0x2000
TGUI_SOLIDFILL == 16384  \* 0x4000

\* extended GDC control register gdcreg[0x10] bits
EXT_CTRL_16BIT            == 1
EXT_CTRL_MONO_EXPANSION   == 2
EXT_CTRL_MONO_TRANSPARENT == 4
EXT_CTRL_LATCH_COPY       == 8

\* device_get_config_int("memory"): megabytes of video memory
VramMB == 1
vram_size == VramMB * 1048576
vram_mask == vram_size - 1
\* svga_init(info, svga, tgui, tgui->vram_size, ...): the bytes allocated,
\* and one change-tracking entry per 4 KiB page of them
VramAlloc    == vram_size
ChangedAlloc == vram_size \div 4096

-----------------------------------------------------------------------------
(* Video memory and the other byte arrays: finite maps over a default.     *)

\* Content of a video-memory byte nothing has written yet: any content is
\* reachable through plain linear-framebuffer writes; this one makes nearby
\* pixels differ.
VramInit(a) == ((a * 7) + 3) % 256

Get(f, i, default) == IF i \in DOMAIN f THEN f[i] ELSE default
Put(f, i, v) == [j \in (DOMAIN f) \cup {i} |-> IF j = i THEN v ELSE f[j]]

VramByte(t, a) == Get(t.vram, a, VramInit(a))

\* the display depth tgui_recalctimings derives on the 9440 and later from
\* crtc[0x38] and the RAMDAC control byte; the older chip leaves svga->bpp
\* to its RAMDAC
DepthOf(type, crtc38, ramdac_ctrl, bpp) ==
  IF type < TGUI_9440 THEN bpp
  ELSE IF And8(crtc38, 25) = 9 THEN 32
  ELSE CASE ramdac_ctrl \div 16 = 1 -> 15
         [] ramdac_ctrl \div 16 = 3 -> 16
         [] ramdac_ctrl \div 16 = 13 -> 24
         [] OTHER -> 8

\* the values of the depth registers a mode set leaves for a display depth
Crtc38For(bpp) == IF bpp = 32 THEN 9 ELSE 0
RamdacFor(bpp) ==
  CASE bpp = 15 -> 16 [] bpp = 16 -> 48 [] bpp = 24 -> 208 [] OTHER -> 0

\* tgui_init: memset(tgui, 0, sizeof(tgui_t)); type from the device table.
\* svga->bpp and svga->rowoffset are owned by the display-timing code
\* (tgui_recalctimings): the device starts in the mode of depth svga_bpp,
\* with the depth registers that select it; decode_mask and vram_max are
\* set by svga_init.
TguiInit(type, svga_bpp, rowoffset) ==
  [ type |-> type, write_blitter |-> 0,
    svga_bpp |-> svga_bpp, rowoffset |-> rowoffset,
    crtc21 |-> 0, crtc36 |-> 0,
    crtc38 |-> Crtc38For(svga_bpp), ramdac_ctrl |-> RamdacFor(svga_bpp),
    ramdac_state |-> 0,
    gdcreg |-> <<>>, copy_latch |-> <<>>,
    src_x |-> 0, src_y |-> 0, src_x_clip |-> 0, src_y_clip |-> 0,
    dst_x |-> 0, dst_y |-> 0, dst_x_clip |-> 0, dst_y_clip |-> 0,
    size_x |-> 0, size_y |-> 0, sv_size_y |-> 0, patloc |-> 0,
    fg_col |-> U32Zero, bg_col |-> U32Zero, style |-> U32Zero, ckey |-> U32Zero,
    rop |-> 0, flags |-> U32Zero,
    pattern |-> <<>>, pattern_32bpp |-> <<>>, pattern_32_idx |-> 0,
    command |-> 0, ger22 |-> 0,
    top |-> 0, left |-> 0, bottom |-> 0, right |-> 0,
    x |-> 0, y |-> 0, dx |-> 0, dy |-> 0,
    src |-> 0, dst |-> 0, src_old |-> 0, dst_old |-> 0,
    pat_x |-> 0, pat_y |-> 0, use_src |-> 0, pitch |-> 0, bpp |-> 0,
    vram |-> <<>>, changedvram |-> {} ]

\* tgui_recalctimings, as far as the accelerator sees it: svga->bpp
tgui_recalctimings(t) ==
  [t EXCEPT !.svga_bpp = DepthOf(t.type, t.crtc38, t.ramdac_ctrl, @)]

-----------------------------------------------------------------------------
(* READ and WRITE: pixel access at the accelerator's pixel-width class.    *)
(* A pixel index is in units of the class (bytes, words, double words).    *)

\* The index with no mask applied.
PixIndex_unmasked(t, addr) == addr

\* the index actually used: (addr) & vram_mask, & (vram_mask >> 1), >> 2
PixIndex(t, addr) ==
  IF t.bpp = 0 THEN addr % (vram_mask + 1)
  ELSE IF t.bpp = 1 THEN addr % ((vram_mask \div 2) + 1)
  ELSE addr % ((vram_mask \div 4) + 1)

\* bytes of one pixel at the class
PixBytes(t) == IF t.bpp = 0 THEN 1 ELSE IF t.bpp = 1 THEN 2 ELSE 4

READ(t, addr) ==
  LET i == PixIndex(t, addr) IN
  IF t.bpp = 0 THEN <<VramByte(t, i), 0, 0, 0>>
  ELSE IF t.bpp = 1 THEN <<VramByte(t, 2 * i), VramByte(t, (2 * i) + 1), 0, 0>>
  ELSE <<VramByte(t, 4 * i), VramByte(t, (4 * i) + 1),
         VramByte(t, (4 * i) + 2), VramByte(t, (4 * i) + 3)>>

\* the entry found with the shift of the byte class at every class
ChangedIndex_byteshift(t, addr) == PixIndex(t, addr) \div 4096

\* the changedvram entry WRITE marks: index >> 12, >> 11, >> 10
ChangedIndex(t, addr) ==
  IF t.bpp = 0 THEN PixIndex(t, addr) \div 4096
  ELSE IF t.bpp = 1 THEN PixIndex(t, addr) \div 2048
  ELSE PixIndex(t, addr) \div 1024

WRITE(t, addr, dat) ==
  LET i == PixIndex(t, addr)
      n == PixBytes(t)
      v == [a \in (DOMAIN t.vram) \cup {(n * i) + k : k \in 0..(n - 1)} |->
              IF a \in {(n * i) + k : k \in 0..(n - 1)}
                THEN dat[(a - (n * i)) + 1] ELSE t.vram[a]]
  IN [t EXCEPT !.vram = v,
               !.changedvram = @ \cup {ChangedIndex(t, addr)}]

-----------------------------------------------------------------------------
(* tgui_accel_command: locals derived from the registers.                  *)

ToU32(n) == <<n % 256, (n \div 256) % 256, (n \div 65536) % 256, (n \div 16777216) % 256>>
Lo16(w)  == w[1] + (256 * w[2])

\* (tgui->accel.flags & mask) != 0, for the 16-bit masks the engine tests
FlagSet(t, mask) == \E k \in 0..15 : Bit(Lo16(t.flags), k) = 1 /\ Bit(mask, k) = 1

xdir(t) == IF FlagSet(t, 512) THEN -1 ELSE 1   \* flags & 0x200
ydir(t) == IF FlagSet(t, 256) THEN -1 ELSE 1   \* flags & 0x100

\* pat_dat, src_dat truncation: "&= 0xff" at class 0, "&= 0xffff" at class 1
MaskBpp(t, w) == IF t.bpp = 0 THEN Mask8(w) ELSE IF t.bpp = 1 THEN Mask16(w) ELSE w

trans_col(t) == MaskBpp(t, IF FlagSet(t, TGUI_TRANSREV) THEN t.fg_col ELSE t.bg_col)

\* (flags >> 24) & 7: the bits of CPU mono data skipped at a row start
MonoSkip(t) == t.flags[4] % 8

\* svga->rowoffset shifted by the display depth
Pitch(t) ==
  IF t.svga_bpp \in {8, 24} THEN t.rowoffset * 8
  ELSE IF t.svga_bpp \in {15, 16} THEN t.rowoffset * 4
  ELSE IF t.svga_bpp = 32 THEN t.rowoffset * 2
  ELSE t.rowoffset

PatByte(t, i)   == Get(t.pattern, i, 0)
Pat32Byte(t, i) == Get(t.pattern_32bpp, i, 0)

\* a pattern cache whose mono rows are expanded low bit first
pattern_data_lsbfirst(t) ==
  [j \in 1..64 |->
     LET r == (j - 1) \div 8
         c == (j - 1) % 8
     IN IF FlagSet(t, TGUI_SOLIDFILL) THEN t.fg_col
        ELSE IF FlagSet(t, TGUI_PATMONO)
          THEN (IF Bit(PatByte(t, r), c) = 1 THEN t.fg_col ELSE t.bg_col)
        ELSE IF t.bpp = 0 THEN <<PatByte(t, c + (r * 8)), 0, 0, 0>>
        ELSE IF t.bpp = 1
          THEN <<PatByte(t, (c * 2) + (r * 16)), PatByte(t, (c * 2) + (r * 16) + 1), 0, 0>>
        ELSE <<Pat32Byte(t, (c * 4) + (r * 32)), Pat32Byte(t, (c * 4) + (r * 32) + 1),
               Pat32Byte(t, (c * 4) + (r * 32) + 2), Pat32Byte(t, (c * 4) + (r * 32) + 3)>>]

pattern_data(t) ==
  [j \in 1..64 |->
     LET r == (j - 1) \div 8
         c == (j - 1) % 8
     IN IF FlagSet(t, TGUI_SOLIDFILL) THEN t.fg_col
        ELSE IF FlagSet(t, TGUI_PATMONO)
          THEN (IF Bit(PatByte(t, r), 7 - c) = 1 THEN t.fg_col ELSE t.bg_col)
        ELSE IF t.bpp = 0 THEN <<PatByte(t, c + (r * 8)), 0, 0, 0>>
        ELSE IF t.bpp = 1
          THEN <<PatByte(t, (c * 2) + (r * 16)), PatByte(t, (c * 2) + (r * 16) + 1), 0, 0>>
        ELSE <<Pat32Byte(t, (c * 4) + (r * 32)), Pat32Byte(t, (c * 4) + (r * 32) + 1),
               Pat32Byte(t, (c * 4) + (r * 32) + 2), Pat32Byte(t, (c * 4) + (r * 32) + 3)>>]

\* a pattern anchored at the origin of the rectangle: the cell of the
\* progress counters
PatDat_relative(t, pd) == MaskBpp(t, pd[(((t.y % 8) * 8) + (t.x % 8)) + 1])

\* pattern_data[((pat_y & 7) * 8) + (pat_x & 7)], truncated to the class
PatDat(t, pd) == MaskBpp(t, pd[(((t.pat_y % 8) * 8) + (t.pat_x % 8)) + 1])

\* cpu_dat << 1, << 8, << 16 in 32 bits
Shl1(w) ==
  <<(w[1] * 2) % 256, ((w[2] * 2) + (w[1] \div 128)) % 256,
    ((w[3] * 2) + (w[2] \div 128)) % 256, ((w[4] * 2) + (w[3] \div 128)) % 256>>
Shl8(w)  == <<0, w[1], w[2], w[3]>>
Shl16(w) == <<0, 0, w[1], w[2]>>
RECURSIVE ShlN(_, _)
ShlN(w, n) == IF n = 0 THEN w ELSE ShlN(Shl1(w), n - 1)

\* the clip-rectangle seed of a command start
ClipSeed(t) ==
  LET l == U16(t.src_x_clip) % 4096
      r == U16(t.dst_x_clip) % 4096
      sh == IF t.bpp = 1 THEN 2 ELSE IF t.bpp = 3 THEN 4 ELSE 1
  IN [t EXCEPT !.left = l \div sh, !.right = r \div sh,
               !.top = U16(t.src_y_clip) % 4096,
               !.bottom = U16(t.dst_y_clip) % 4096]

\* the draw test of the CPU-sourced block transfer and of the line commands
InClip(t) ==
  /\ (U16(t.dx) % 4096) >= t.left
  /\ (U16(t.dx) % 4096) <= t.right
  /\ (U16(t.dy) % 4096) >= t.top
  /\ (U16(t.dy) % 4096) <= t.bottom

\* the block transfer compares dx, dy unmasked
InClipBlt(t) ==
  /\ t.dx >= t.left
  /\ t.dx <= t.right
  /\ t.dy >= t.top
  /\ t.dy <= t.bottom

\* One pixel step, as an observer of the engine sees it: the counters and
\* coordinates before the step, the draw test (ok), whether WRITE ran, the
\* address given to READ/WRITE (raw), the pixel indices used for the
\* destination (idx) and the source (sidx), the bytes of a pixel, the
\* changedvram entries marked, and the operands and result of MIX.
Step(t, ok, wrote, addr, src_dat, dst_dat, pat_dat, out) ==
  [ x |-> t.x, y |-> t.y, dx |-> t.dx, dy |-> t.dy, ok |-> ok, wrote |-> wrote,
    raw |-> addr, idx |-> PixIndex(t, addr), sidx |-> PixIndex(t, addr),
    bytes |-> PixBytes(t),
    chg |-> IF wrote THEN {ChangedIndex(t, addr)} ELSE {},
    src |-> src_dat, dst |-> dst_dat, pat |-> pat_dat, out |-> out ]
-----------------------------------------------------------------------------
(* tgui_accel_command, TGUI_BITBLT.  Every loop operator returns           *)
(* [t |-> the device, steps |-> the pixel steps it made, in order].        *)

\* a start that goes on from the row pointers of the command before
BltSeed_resume(t) ==
  [t EXCEPT !.src = t.src_old, !.dst = t.dst_old,
            !.pat_x = t.dst_x, !.pat_y = t.dst_y]

\* count == -1 of a block transfer or scanline: running pointers and pattern
\* origin from the registers
BltSeed(t) ==
  LET s == t.src_x + (t.src_y * t.pitch)
      d == t.dst_x + (t.dst_y * t.pitch)
  IN [t EXCEPT !.src_old = s, !.src = s, !.dst_old = d, !.dst = d,
               !.pat_x = t.dst_x, !.pat_y = t.dst_y]

\* ... and of a block transfer: current coordinates and clip box
BitBltSeed(t) ==
  ClipSeed([BltSeed(t) EXCEPT !.dx = U16(t.dst_x) % 4096, !.dy = U16(t.dst_y) % 4096])

\* the test taken on bit 4
LinearOn_bit4(t) == Bit(t.crtc21, 4) = 1

\* svga->crtc[0x21] & 0x20
LinearOn(t) == Bit(t.crtc21, 5) = 1

\* the per-pixel advance shared by the three CPU/display loops
AdvanceX(t, track) ==
  [t EXCEPT !.src = @ + xdir(t), !.dst = @ + xdir(t), !.pat_x = @ + xdir(t),
            !.dx = IF track THEN S16(@ + xdir(t)) ELSE @,
            !.x = S16(@ + 1)]

\* the row wrap of the CPU-sourced loops (before y is compared with size_y)
WrapRowCpu(t) ==
  [t EXCEPT !.x = 0, !.pat_x = t.dst_x, !.pat_y = @ + ydir(t),
            !.dx = IF t.type >= TGUI_9660 THEN U16(t.dst_x) % 4096 ELSE @,
            !.dy = IF t.type >= TGUI_9660 THEN S16(@ + ydir(t)) ELSE @,
            !.src_old = @ + (ydir(t) * t.pitch), !.src = t.src_old + (ydir(t) * t.pitch),
            !.dst_old = @ + (ydir(t) * t.pitch), !.dst = t.dst_old + (ydir(t) * t.pitch),
            !.y = S16(@ + 1)]

\* The same test with the clip box ignored on every chip.
CpuDrawOk_noclip(t) ==
  \/ t.type = TGUI_9440
  \/ t.type >= TGUI_9660

\* the draw test of the CPU-sourced loops
CpuDrawOk(t) ==
  \/ t.type = TGUI_9440
  \/ (t.type >= TGUI_9660 /\ InClipBlt(t))

\* the write condition of the CPU colour loop: the pattern, not the source,
\* is compared with the transparent colour, and only for a mono pattern
CpuColourWrites(t, pat_dat) ==
  \/ (FlagSet(t, TGUI_PATMONO) /\ FlagSet(t, TGUI_TRANSENA) /\ pat_dat # trans_col(t))
  \/ ~FlagSet(t, TGUI_PATMONO)
  \/ (FlagSet(t, TGUI_PATMONO) /\ ~FlagSet(t, TGUI_TRANSENA))
  \/ Bit(t.ger22, 9) = 1

\* the write condition of the mono, display and scanline loops
SrcWrites(t, src_dat) ==
  ~FlagSet(t, TGUI_TRANSENA) \/ src_dat # trans_col(t)

\* one pixel: out = MIX(...), WRITE(addr, out) when wr; returns the device
\* and the record of the step
PixelOut(t, ok, wr, addr, src_dat, dst_dat, pat_dat, out) ==
  [t |-> IF wr THEN WRITE(t, addr, out) ELSE t,
   step |-> Step(t, ok, wr, addr, src_dat, dst_dat, pat_dat, out)]

Pixel(t, ok, wr, addr, src_dat, dst_dat, pat_dat) ==
  PixelOut(t, ok, wr, addr, src_dat, dst_dat, pat_dat,
           MIX(t, dst_dat, pat_dat, src_dat))

RECURSIVE BltCpuLoop(_, _, _, _, _)
\* the tail of an iteration of the CPU colour loop, p the pixel just made
CpuNext(p, count, cpu_dat, pd, steps) ==
  LET t2 == AdvanceX(p.t, p.t.type >= TGUI_9660)
      t3 == WrapRowCpu(t2)
  IN IF t2.x > t2.size_x
       THEN IF t3.y > t3.size_y
              THEN [t |-> [t3 EXCEPT !.write_blitter = IF LinearOn(t3) THEN 0 ELSE @],
                    steps |-> Append(steps, p.step)]
            ELSE IF t3.use_src # 0
              THEN [t |-> t3, steps |-> Append(steps, p.step)]
            ELSE BltCpuLoop(t3, count - 1, cpu_dat, pd, Append(steps, p.step))
     ELSE BltCpuLoop(t2, count - 1, cpu_dat, pd, Append(steps, p.step))

\* case TGUI_SRCCPU: while (count) { ... count--; }
BltCpuLoop(t, count, cpu_dat, pd, steps) ==
  IF count = 0 THEN [t |-> t, steps |-> steps]
  ELSE
    LET ok == CpuDrawOk(t)
        src_dat == IF t.bpp = 0 THEN <<cpu_dat[4], 0, 0, 0>>
                   ELSE IF t.bpp = 1 THEN <<cpu_dat[4], cpu_dat[3], 0, 0>>
                   ELSE <<cpu_dat[4], cpu_dat[3], cpu_dat[2], 0>>
        cpu1 == IF ~ok THEN cpu_dat
                ELSE IF t.bpp = 0 THEN Shl8(cpu_dat) ELSE Shl16(cpu_dat)
        count1 == IF ~ok THEN count
                  ELSE IF t.bpp = 0 THEN count
                  ELSE IF t.bpp = 1 THEN count - 1 ELSE count - 3
        pat_dat == PatDat(t, pd)
    IN CpuNext(Pixel(t, ok, ok /\ CpuColourWrites(t, pat_dat), t.dst,
                     src_dat, READ(t, t.dst), pat_dat),
               count1, cpu1, pd, steps)

RECURSIVE BltMonoLoop(_, _, _, _, _)
\* the tail of an iteration of the CPU mono loop, p the pixel just made
MonoNext(p, count, cpu_dat, pd, steps) ==
  LET t2 == AdvanceX(p.t, p.t.type >= TGUI_9660)
      t3 == WrapRowCpu(t2)
  IN IF t2.x > t2.size_x
       THEN IF t3.y > t3.size_y
              THEN [t |-> [t3 EXCEPT !.write_blitter = IF LinearOn(t3) THEN 0 ELSE @],
                    steps |-> Append(steps, p.step)]
            ELSE IF t3.use_src # 0
              THEN [t |-> t3, steps |-> Append(steps, p.step)]
            ELSE BltMonoLoop(t3, count - 1, Shl1(cpu_dat), pd, Append(steps, p.step))
     ELSE BltMonoLoop(t2, count - 1, Shl1(cpu_dat), pd, Append(steps, p.step))

\* case TGUI_SRCMONO | TGUI_SRCCPU: while (count--) { ... }
BltMonoLoop(t, count, cpu_dat, pd, steps) ==
  IF count = 0 THEN [t |-> t, steps |-> steps]
  ELSE
    LET ok == CpuDrawOk(t)
        src_dat == MaskBpp(t, IF cpu_dat[4] \div 128 = 1 THEN t.fg_col ELSE t.bg_col)
    IN MonoNext(Pixel(t, ok, ok /\ SrcWrites(t, src_dat), t.dst,
                      src_dat, READ(t, t.dst), PatDat(t, pd)),
                count, cpu_dat, pd, steps)

\* The row wrap that restarts the source at the row it has just read.
WrapRowDisp_srcstuck(t) ==
  [t EXCEPT !.x = 0, !.pat_x = t.dst_x, !.pat_y = @ + ydir(t),
            !.src = t.src_old,
            !.dst_old = @ + (ydir(t) * t.pitch), !.dst = t.dst_old + (ydir(t) * t.pitch)]

\* the row wrap of the display-sourced and scanline loops
\* a row wrap that moves the destination by two rows
WrapRowDisp_tworows(t) ==
  [t EXCEPT !.x = 0, !.pat_x = t.dst_x, !.pat_y = @ + ydir(t),
            !.src_old = @ + (ydir(t) * t.pitch), !.src = t.src_old + (ydir(t) * t.pitch),
            !.dst_old = @ + (2 * ydir(t) * t.pitch),
            !.dst = t.dst_old + (2 * ydir(t) * t.pitch)]

\* a row wrap that always moves down the screen
WrapRowDisp_down(t) ==
  [t EXCEPT !.x = 0, !.pat_x = t.dst_x, !.pat_y = @ + 1,
            !.src_old = @ + t.pitch, !.src = t.src_old + t.pitch,
            !.dst_old = @ + t.pitch, !.dst = t.dst_old + t.pitch]

WrapRowDisp(t) ==
  [t EXCEPT !.x = 0, !.pat_x = t.dst_x, !.pat_y = @ + ydir(t),
            !.src_old = @ + (ydir(t) * t.pitch), !.src = t.src_old + (ydir(t) * t.pitch),
            !.dst_old = @ + (ydir(t) * t.pitch), !.dst = t.dst_old + (ydir(t) * t.pitch)]

RECURSIVE BltDispLoop(_, _, _, _, _)
\* the tail of an iteration of the display loop, p the pixel just made and
\* sidx the place its source was read from
DispNext(p, sidx, count, pd, steps, scanline) ==
  LET st == [p.step EXCEPT !.sidx = sidx]
      t2 == AdvanceX(p.t, FALSE)
      t3 == IF scanline THEN WrapRowDisp(t2)
            ELSE [WrapRowDisp(t2) EXCEPT !.y = S16(@ + 1)]
  IN IF t2.x > t2.size_x
       THEN IF scanline \/ t3.y > t3.size_y
              THEN [t |-> t3, steps |-> Append(steps, st)]
            ELSE BltDispLoop(t3, count - 1, pd, Append(steps, st), scanline)
     ELSE BltDispLoop(t2, count - 1, pd, Append(steps, st), scanline)

\* default (display source): while (count--) { ... }; scanline is the same
\* loop that returns at the first row wrap and never counts rows
BltDispLoop(t, count, pd, steps, scanline) ==
  IF count = 0 THEN [t |-> t, steps |-> steps]
  ELSE
    LET src_dat == READ(t, t.src)
    IN DispNext(Pixel(t, TRUE, SrcWrites(t, src_dat), t.dst,
                      src_dat, READ(t, t.dst), PatDat(t, pd)),
                PixIndex(t, t.src), count, pd, steps, scanline)
-----------------------------------------------------------------------------
(* tgui_accel_command, the line commands.                                  *)

\* count == -1 of a line command: start point, length and clip box
LineSeed(t, len) ==
  ClipSeed([t EXCEPT !.dx = U16(t.dst_x) % 4096, !.dy = U16(t.dst_y) % 4096,
                     !.y = len])

\* the draw test of the line loops
LineDrawOk(t) ==
  \/ t.type = TGUI_9440
  \/ (t.type >= TGUI_9660 /\ InClip(t))

\* the pixel of a line step: READ, pat_dat = fg_col, src_dat = 0, MIX, WRITE
LinePixel(t) ==
  Pixel(t, LineDrawOk(t), LineDrawOk(t), t.dx + (t.dy * t.pitch), U32Zero,
        READ(t, t.dx + (t.dy * t.pitch)), t.fg_col)

\* Bresenham: the minor-axis and major-axis moves of octant (flags >> 8) & 7
BresMinor(o) ==
  CASE o \in {0, 2} -> [dx |-> 0, dy |-> 1]
    [] o \in {1, 3} -> [dx |-> 0, dy |-> -1]
    [] o \in {4, 5} -> [dx |-> 1, dy |-> 0]
    [] o \in {6, 7} -> [dx |-> -1, dy |-> 0]

\* a major-axis move that takes every octant for an x-major one
BresMajor_xmajor(o) ==
  CASE o \in {0, 1, 4, 6} -> [dx |-> 1, dy |-> 0]
    [] o \in {2, 3, 5, 7} -> [dx |-> -1, dy |-> 0]

BresMajor(o) ==
  CASE o \in {0, 1} -> [dx |-> 1, dy |-> 0]
    [] o \in {2, 3} -> [dx |-> -1, dy |-> 0]
    [] o \in {4, 6} -> [dx |-> 0, dy |-> 1]
    [] o \in {5, 7} -> [dx |-> 0, dy |-> -1]

RECURSIVE BresLoop(_, _, _)
\* the tail of a Bresenham step, p the pixel just made at the position of t
BresNext(p, t, count, steps) ==
  LET o == t.flags[2] % 8
      diag == t.size_x >= 0
      mi == IF diag THEN BresMinor(o) ELSE [dx |-> 0, dy |-> 0]
      ma == BresMajor(o)
      t2 == [p.t EXCEPT
               !.size_x = S16(@ + (IF diag THEN t.src_x ELSE t.src_y)),
               !.dx = U16(@ + mi.dx + ma.dx) % 4096,
               !.dy = U16(@ + mi.dy + ma.dy) % 4096,
               !.y = S16(@ - 1)]
  IN IF t.y = 0 THEN [t |-> p.t, steps |-> Append(steps, p.step)]
     ELSE BresLoop(t2, count - 1, Append(steps, p.step))

BresLoop(t, count, steps) ==
  IF count = 0 THEN [t |-> t, steps |-> steps]
  ELSE BresNext(LinePixel(t), t, count, steps)

\* short vector and fast line: the move of direction code c = (v >> 8) & 0xe0
\* the moves with the y axis pointing up
VectorMove_yup(c) ==
  CASE c = 0   -> [dx |-> 1, dy |-> 0]
    [] c = 32  -> [dx |-> 1, dy |-> 1]
    [] c = 64  -> [dx |-> 0, dy |-> 1]
    [] c = 96  -> [dx |-> -1, dy |-> 1]
    [] c = 128 -> [dx |-> -1, dy |-> 0]
    [] c = 160 -> [dx |-> -1, dy |-> -1]
    [] c = 192 -> [dx |-> 0, dy |-> -1]
    [] c = 224 -> [dx |-> 1, dy |-> -1]

VectorMove(c) ==
  CASE c = 0   -> [dx |-> 1, dy |-> 0]
    [] c = 32  -> [dx |-> 1, dy |-> -1]
    [] c = 64  -> [dx |-> 0, dy |-> -1]
    [] c = 96  -> [dx |-> -1, dy |-> -1]
    [] c = 128 -> [dx |-> -1, dy |-> 0]
    [] c = 160 -> [dx |-> -1, dy |-> 1]
    [] c = 192 -> [dx |-> 0, dy |-> 1]
    [] c = 224 -> [dx |-> 1, dy |-> 1]

\* (tgui->accel.sv_size_y >> 8) & 0xe0, sv_size_y a uint16_t
ShortVectorCode(t) == And16(t.sv_size_y \div 256, 224)

\* (tgui->accel.size_y >> 8) & 0xe0, size_y an int16_t
FastLineCode(t) == And16(U16(t.size_y \div 256), 224)

RECURSIVE VectorLoop(_, _, _, _)
\* the tail of a vector step, p the pixel just made at the position of t
VectorNext(p, t, count, steps, fast) ==
  LET mv == VectorMove(IF fast THEN FastLineCode(t) ELSE ShortVectorCode(t))
      t2 == [p.t EXCEPT !.dx = U16(@ + mv.dx) % 4096,
                        !.dy = U16(@ + mv.dy) % 4096,
                        !.y = S16(@ - 1)]
  IN IF t.y = 0 THEN [t |-> p.t, steps |-> Append(steps, p.step)]
     ELSE VectorLoop(t2, count - 1, Append(steps, p.step), fast)

VectorLoop(t, count, steps, fast) ==
  IF count = 0 THEN [t |-> t, steps |-> steps]
  ELSE VectorNext(LinePixel(t), t, count, steps, fast)

-----------------------------------------------------------------------------
(* tgui_accel_command(count, cpu_dat, tgui)                                *)

\* TGUI_BITBLT, by flags & (TGUI_SRCMONO | TGUI_SRCDISP)
BitBlt(t, count, cpu_dat, pd) ==
  LET t1 == IF count = -1 THEN BitBltSeed(t) ELSE t
      mode == And16(Lo16(t.flags), TGUI_SRCMONO + TGUI_SRCDISP)
      t2 == IF count = -1 /\ LinearOn(t1) THEN [t1 EXCEPT !.write_blitter = 1] ELSE t1
  IN CASE mode = TGUI_SRCCPU ->
            IF count = -1 /\ t2.use_src # 0 THEN [t |-> t2, steps |-> <<>>]
            ELSE BltCpuLoop(t2, IF count = -1 THEN count ELSE count \div 8,
                            cpu_dat, pd, <<>>)
       [] mode = TGUI_SRCMONO ->
            IF count = -1 /\ t2.use_src # 0 THEN [t |-> t2, steps |-> <<>>]
            ELSE BltMonoLoop(t2, count, cpu_dat, pd, <<>>)
       [] OTHER -> BltDispLoop(t1, count, pd, <<>>, FALSE)

\* The entry that keeps the progress counters of the previous command.
CommandEntry_noreset(t, count) ==
  [t EXCEPT !.pattern_32_idx = 0, !.pitch = Pitch(t)]

\* The engine with the mono bit-skip and the start reset, before the switch
CommandEntry(t, count) ==
  [t EXCEPT !.x = IF count = -1 THEN 0 ELSE @,
            !.y = IF count = -1 THEN 0 ELSE @,
            !.pattern_32_idx = 0,
            !.pitch = Pitch(t)]

\* a fast line that every chip draws
FastLineChip_any(t) == TRUE

\* the chips that have the fast-line command: if (tgui->type < TGUI_9660) break
FastLineChip(t) == t.type >= TGUI_9660

tgui_accel_command(count0, cpu_dat0, t0) ==
  LET skip == (count0 # -1) /\ (t0.x = 0) /\ FlagSet(t0, TGUI_SRCMONO)
      count == IF skip THEN count0 - MonoSkip(t0) ELSE count0
      cpu_dat == IF skip THEN ShlN(cpu_dat0, MonoSkip(t0)) ELSE cpu_dat0
      t == CommandEntry(t0, count)
      pd == pattern_data(t)
  IN CASE t.command = TGUI_BITBLT -> BitBlt(t, count, cpu_dat, pd)
       [] t.command = TGUI_SCANLINE ->
            BltDispLoop(IF count = -1 THEN BltSeed(t) ELSE t, count, pd, <<>>, TRUE)
       [] t.command = TGUI_BRESENHAMLINE ->
            BresLoop(IF count = -1 THEN LineSeed(t, t.size_y) ELSE t, count, <<>>)
       [] t.command = TGUI_SHORTVECTOR ->
            VectorLoop(IF count = -1 THEN LineSeed(t, t.sv_size_y % 4096) ELSE t,
                       count, <<>>, FALSE)
       [] t.command = TGUI_FASTLINE /\ FastLineChip(t) ->
            VectorLoop(IF count = -1 THEN LineSeed(t, t.size_y) ELSE t,
                       count, <<>>, TRUE)
       [] OTHER -> [t |-> t, steps |-> <<>>]

-----------------------------------------------------------------------------
(* Register file: tgui_accel_out / tgui_accel_in and their wide forms.     *)
(* Register offsets are relative to 0x2100 (port) or to the aperture.      *)

AccelBase == 8448   \* 0x2100

\* accel.bpp as the ger22 writes derive it from svga->bpp
BppClass(t) ==
  IF t.svga_bpp \in {8, 24} THEN 0
  ELSE IF t.svga_bpp \in {15, 16} THEN 1
  ELSE IF t.svga_bpp = 32 THEN 3
  ELSE t.bpp

\* partial stores into the 16-bit fields
SetLo(v, val)   == ((U16(v) \div 256) * 256) + val             \* (v & 0xff00) | val
SetHi(v, val)   == (U16(v) % 256) + (val * 256)                \* (v & 0xff) | (val << 8)
SetLo14(v, val) == (((U16(v) \div 256) % 64) * 256) + val      \* (v & 0x3f00) | val
SetHi14(v, val) ==                                             \* (v & 0xff) | ((val & 0x3f) << 8),
  Or16((U16(v) % 256) + ((val % 64) * 256),                    \* |= ~0x3fff when val & 0x20
       IF Bit(val, 5) = 1 THEN 49152 ELSE 0)
SetHi13(v, val) ==                                             \* the same with |= ~0x1fff
  Or16((U16(v) % 256) + ((val % 64) * 256),
       IF Bit(val, 5) = 1 THEN 57344 ELSE 0)
SetLo12(v, val) == (((U16(v) \div 256) % 16) * 256) + val      \* (v & 0xf00) | val
SetHi12(v, val) == (U16(v) % 256) + ((val % 16) * 256)         \* (v & 0xff) | ((val & 0x0f) << 8)

\* byte k (1..4) of a 32-bit register
SetByte(w, k, val) == [w EXCEPT ![k] = val]
\* flags byte 3 as the code stores it: (flags & 0x0000ffff) | (val << 24)
SetFlagsTop(w, val) == <<w[1], w[2], 0, val>>

\* a flag taken from the low bit pairs of the code alone
UseSrc_lowpairs(rop) == And8(rop, 51)

\* accel.use_src from a raster-op code
UseSrc(rop) == Xor8(And8(rop, 51), And8(rop \div 4, 51))

\* The register switch of tgui_accel_out for every offset except the
\* command register; an offset outside the switch stores nothing.
AccelStore(t, o, val) ==
  CASE o = 34 -> [t EXCEPT !.ger22 = ((@ \div 256) * 256) + val, !.bpp = BppClass(t)]   \* 0x22
    [] o = 35 -> [t EXCEPT !.ger22 = (@ % 256) + (val * 256), !.bpp = BppClass(t)]      \* 0x23
    [] o = 39 -> [t EXCEPT !.rop = val, !.use_src = UseSrc(val)]                        \* 0x27
    [] o \in 40..42 -> [t EXCEPT !.flags = SetByte(@, o - 39, val)]                     \* 0x28-0x2a
    [] o = 43 -> [t EXCEPT !.flags = SetFlagsTop(@, val)]                               \* 0x2b
    [] o \in 44..47 -> [t EXCEPT !.fg_col = SetByte(@, o - 43, val)]                    \* 0x2c-0x2f
    [] o \in 120..123 -> [t EXCEPT !.fg_col = SetByte(@, o - 119, val)]                 \* 0x78-0x7b
    [] o \in 48..51 -> [t EXCEPT !.bg_col = SetByte(@, o - 47, val)]                    \* 0x30-0x33
    [] o \in 124..127 -> [t EXCEPT !.bg_col = SetByte(@, o - 123, val)]                 \* 0x7c-0x7f
    [] o = 52 -> [t EXCEPT !.patloc = SetLo(@, val)]                                    \* 0x34
    [] o = 53 -> [t EXCEPT !.patloc = SetHi(@, val)]                                    \* 0x35
    [] o = 56 -> [t EXCEPT !.dst_x = S16(SetLo(@, val))]                                \* 0x38
    [] o = 57 -> [t EXCEPT !.dst_x = S16(SetHi(@, val))]                                \* 0x39
    [] o = 58 -> [t EXCEPT !.dst_y = S16(SetLo(@, val))]                                \* 0x3a
    [] o = 59 -> [t EXCEPT !.dst_y = S16(SetHi(@, val))]                                \* 0x3b
    [] o = 60 -> [t EXCEPT !.src_x = S16(SetLo14(@, val))]                              \* 0x3c
    [] o = 61 -> [t EXCEPT !.src_x = S16(SetHi14(@, val))]                              \* 0x3d
    [] o = 62 -> [t EXCEPT !.src_y = S16(SetLo14(@, val))]                              \* 0x3e
    [] o = 63 -> [t EXCEPT !.src_y = S16(SetHi14(@, val))]                              \* 0x3f
    [] o = 64 -> [t EXCEPT !.size_x = S16(SetLo14(@, val))]                             \* 0x40
    [] o = 65 -> [t EXCEPT !.size_x = S16(SetHi13(@, val))]                             \* 0x41
    [] o = 66 -> [t EXCEPT !.size_y = S16(SetLo12(@, val)),                             \* 0x42
                           !.sv_size_y = SetLo(@, val)]
    [] o = 67 -> [t EXCEPT !.size_y = S16(SetHi12(@, val)),                             \* 0x43
                           !.sv_size_y = SetHi(@, val)]
    [] o \in 68..71 -> [t EXCEPT !.style = SetByte(@, o - 67, val)]                     \* 0x44-0x47
    [] o = 72 -> [t EXCEPT !.src_x_clip = S16(SetLo(@, val))]                           \* 0x48
    [] o = 73 -> [t EXCEPT !.src_x_clip = S16(SetHi(@, val))]                           \* 0x49
    [] o = 74 -> [t EXCEPT !.src_y_clip = S16(SetLo(@, val))]                           \* 0x4a
    [] o = 75 -> [t EXCEPT !.src_y_clip = S16(SetHi(@, val))]                           \* 0x4b
    [] o = 76 -> [t EXCEPT !.dst_x_clip = S16(SetLo(@, val))]                           \* 0x4c
    [] o = 77 -> [t EXCEPT !.dst_x_clip = S16(SetHi(@, val))]                           \* 0x4d
    [] o = 78 -> [t EXCEPT !.dst_y_clip = S16(SetLo(@, val))]                           \* 0x4e
    [] o = 79 -> [t EXCEPT !.dst_y_clip = S16(SetHi(@, val))]                           \* 0x4f
    [] o \in 104..107 -> [t EXCEPT !.ckey = SetByte(@, o - 103, val)]                   \* 0x68-0x6b
    [] o \in 128..255 ->                                                                \* 0x80-0xff
         [t EXCEPT !.pattern = Put(@, o % 128, val),
                   !.pattern_32bpp = Put(@, t.pattern_32_idx, val),
                   !.pattern_32_idx = (@ + 1) % 256]
    [] OTHER -> t

\* tgui_accel_out(addr, val, tgui): [t, steps]; 0x2124 starts the command
tgui_accel_out(addr, val, t) ==
  IF addr = AccelBase + 36
    THEN tgui_accel_command(-1, U32Zero, [t EXCEPT !.command = val])
  ELSE [t |-> AccelStore(t, addr - AccelBase, val), steps |-> <<>>]

\* the steps made so far, then those of the call that returned r
After(steps, r) == [t |-> r.t, steps |-> steps \o r.steps]

\* the four byte writes of a wide access, in ascending address order; r is
\* the device and the steps after the bytes already written
RECURSIVE AccelOutBytes(_, _, _)
AccelOutBytes(addr, bytes, r) ==
  IF bytes = <<>> THEN r
  ELSE AccelOutBytes(addr + 1, Tail(bytes),
                     After(r.steps, tgui_accel_out(addr, Head(bytes), r.t)))

\* The long write that takes the raster-op code from byte 1 of the value.
tgui_accel_out_l_midrop(addr, val, t) ==
  IF addr = AccelBase + 36
    THEN tgui_accel_command(-1, U32Zero,
           [t EXCEPT !.command = val[1], !.rop = val[2], !.use_src = UseSrc(val[2])])
  ELSE AccelOutBytes(addr, val, [t |-> t, steps |-> <<>>])

\* tgui_accel_out_l: command and ROP together at 0x2124, else four byte writes
tgui_accel_out_l(addr, val, t) ==
  IF addr = AccelBase + 36
    THEN tgui_accel_command(-1, U32Zero,
           [t EXCEPT !.command = val[1], !.rop = val[4], !.use_src = UseSrc(val[4])])
  ELSE AccelOutBytes(addr, val, [t |-> t, steps |-> <<>>])

\* The register a read returns, by offset; idle for an offset outside the
\* switch (tgui_accel_in and tgui_accel_read decode the same cases).
AccelLoad(t, o, idle) ==
  CASE o = 32 -> 0                                  \* 0x20 status
    [] o = 34 -> t.ger22 % 256
    [] o = 35 -> U8(t.ger22 \div 256)
    [] o = 39 -> t.rop
    [] o \in 40..43 -> t.flags[o - 39]
    [] o \in 44..47 -> t.fg_col[o - 43]
    [] o \in 120..123 -> t.fg_col[o - 119]
    [] o \in 48..51 -> t.bg_col[o - 47]
    [] o \in 124..127 -> t.bg_col[o - 123]
    [] o = 52 -> t.patloc % 256
    [] o = 53 -> U8(t.patloc \div 256)
    [] o = 56 -> U16(t.dst_x) % 256
    [] o = 57 -> U16(t.dst_x) \div 256
    [] o = 58 -> U16(t.dst_y) % 256
    [] o = 59 -> U16(t.dst_y) \div 256
    [] o = 60 -> U16(t.src_x) % 256
    [] o = 61 -> U16(t.src_x) \div 256
    [] o = 62 -> U16(t.src_y) % 256
    [] o = 63 -> U16(t.src_y) \div 256
    [] o = 64 -> U16(t.size_x) % 256
    [] o = 65 -> U16(t.size_x) \div 256
    [] o = 66 -> U16(t.size_y) % 256
    [] o = 67 -> U16(t.size_y) \div 256
    [] o \in 68..71 -> t.style[o - 67]
    [] o = 72 -> U16(t.src_x_clip) % 256
    [] o = 73 -> U16(t.src_x_clip) \div 256
    [] o = 74 -> U16(t.src_y_clip) % 256
    [] o = 75 -> U16(t.src_y_clip) \div 256
    [] o = 76 -> U16(t.dst_x_clip) % 256
    [] o = 77 -> U16(t.dst_x_clip) \div 256
    [] o = 78 -> U16(t.dst_y_clip) % 256
    [] o = 79 -> U16(t.dst_y_clip) \div 256
    [] o \in 104..107 -> t.ckey[o - 103]
    [] o \in 128..255 -> PatByte(t, o % 128)
    [] OTHER -> idle

tgui_accel_in(addr, t) == AccelLoad(t, addr - AccelBase, 0)
tgui_accel_in_l(addr, t) ==
  <<tgui_accel_in(addr, t), tgui_accel_in(addr + 1, t),
    tgui_accel_in(addr + 2, t), tgui_accel_in(addr + 3, t)>>

-----------------------------------------------------------------------------
(* The memory-mapped register aperture: tgui_accel_write / tgui_accel_read *)

\* the register pages: crtc[0x36] & 3 = 2 selects 0xbff00, = 1 selects 0xb7f00
ApertBase    == 786176
ApertBaseLow == 753408

\* the page test of the aperture handlers: with crtc[0x36] & 3 equal to 2
\* (or 1) only the page 0xbff00 (or 0xb7f00) holds the registers
AperturePageOk(t, addr) ==
  LET page == (addr \div 256) * 256
      sel == t.crtc36 % 4
  IN IF sel = 2 THEN page = ApertBase
     ELSE IF sel = 1 THEN page = ApertBaseLow
     ELSE TRUE

tgui_accel_write(addr, val, t) ==
  IF ~AperturePageOk(t, addr) THEN [t |-> t, steps |-> <<>>]
  ELSE tgui_accel_out((addr % 256) + AccelBase, val, t)

RECURSIVE AccelWriteBytes(_, _, _)
AccelWriteBytes(addr, bytes, r) ==
  IF bytes = <<>> THEN r
  ELSE AccelWriteBytes(addr + 1, Tail(bytes),
                       After(r.steps, tgui_accel_write(addr, Head(bytes), r.t)))

tgui_accel_write_w(addr, val, t) == AccelWriteBytes(addr, <<val[1], val[2]>>, [t |-> t, steps |-> <<>>])

tgui_accel_write_l(addr, val, t) ==
  IF addr % 256 = 36
    THEN IF ~AperturePageOk(t, addr) THEN [t |-> t, steps |-> <<>>]
         ELSE tgui_accel_command(-1, U32Zero,
                [t EXCEPT !.command = val[1], !.rop = val[4], !.use_src = UseSrc(val[4])])
  ELSE AccelWriteBytes(addr, val, [t |-> t, steps |-> <<>>])

tgui_accel_read(addr, t) ==
  IF ~AperturePageOk(t, addr) THEN 255
  ELSE AccelLoad(t, addr % 256, 255)

tgui_accel_read_l(addr, t) ==
  <<tgui_accel_read(addr, t), tgui_accel_read(addr + 1, t),
    tgui_accel_read(addr + 2, t), tgui_accel_read(addr + 3, t)>>

-----------------------------------------------------------------------------
(* The linear framebuffer aperture: tgui_accel_write_fb_b / _w / _l        *)

\* svga_write_linear and its wide forms, for the packed linear layout the
\* accelerator modes use: the bytes go to video memory at the address, low
\* byte first, and their pages are marked changed.
RECURSIVE svga_write_linear(_, _, _)
svga_write_linear(addr, bytes, t) ==
  IF bytes = <<>> THEN t
  ELSE LET a == addr % (vram_mask + 1)
       IN svga_write_linear(addr + 1, Tail(bytes),
            [t EXCEPT !.vram = Put(@, a, Head(bytes)),
                      !.changedvram = @ \cup {a \div 4096}])

\* tgui_accel_command(8, val << 24, tgui)
tgui_accel_write_fb_b(addr, val, t) ==
  IF t.write_blitter # 0
    THEN tgui_accel_command(8, <<0, 0, 0, val>>, t)
  ELSE [t |-> svga_write_linear(addr, <<val>>, t), steps |-> <<>>]

\* the two bytes in the order of their significance in val
cpu_dat_w_noswap(val) == <<0, 0, val[1], val[2]>>

\* (((val & 0xff00) >> 8) | ((val & 0x00ff) << 8)) << 16
cpu_dat_w(val) == <<0, 0, val[2], val[1]>>

\* tgui_accel_command(16, byte-swapped val << 16, tgui)
tgui_accel_write_fb_w(addr, val, t) ==
  IF t.write_blitter # 0
    THEN tgui_accel_command(16, cpu_dat_w(val), t)
  ELSE [t |-> svga_write_linear(addr, <<val[1], val[2]>>, t), steps |-> <<>>]

\* tgui_accel_command(32, byte-swapped val, tgui)
tgui_accel_write_fb_l(addr, val, t) ==
  IF t.write_blitter # 0
    THEN tgui_accel_command(32, <<val[4], val[3], val[2], val[1]>>, t)
  ELSE [t |-> svga_write_linear(addr, val, t), steps |-> <<>>]

-----------------------------------------------------------------------------
(* TGUI9400CXi extended write modes: tgui_ext_linear_read / _write /       *)
(* _writew over the dword-remapped layout.                                 *)

\* tgui_out, port 0x3CF: gdcreg[gdcaddr] = val for the extended registers
gdc_write(idx, val, t) == [t EXCEPT !.gdcreg = Put(@, idx, val)]

GdcReg(t, idx) == Get(t.gdcreg, idx, 0)

\* the handlers tgui_recalcmapping installs on the TGUI9400CXi
ExtReadMapped(t) ==
  t.type = TGUI_9400CXI /\ And16(GdcReg(t, 16), EXT_CTRL_LATCH_COPY) # 0
ExtWriteMapped(t) ==
  t.type = TGUI_9400CXI
  /\ And16(GdcReg(t, 16), EXT_CTRL_LATCH_COPY + EXT_CTRL_MONO_EXPANSION) # 0

\* svga->decode_mask: 0x1fffff or 0xfffff, by crtc[0x21] bit 4
decode_mask(t) == IF Bit(t.crtc21, 4) = 1 THEN 2097151 ELSE 1048575
\* svga_init: vram_max and svga->vram_mask from the memory size passed to it
svga_vram_max  == vram_size
svga_vram_mask == vram_size - 1

\* a transform that drops the bits folded back
dword_remap_nofold(in_addr) ==
  (((in_addr \div 4) % 16384) * 16)
   + (((in_addr \div 262144) * 262144) + (in_addr % 4))

\* a transform that folds bits 14..15 back instead of bits 16..17
dword_remap_fold14(in_addr) ==
  ((((in_addr \div 4) % 16384) * 16) + (((in_addr \div 16384) % 4) * 4))
   + (((in_addr \div 262144) * 262144) + (in_addr % 4))

\* ((in << 2) & 0x3fff0) | ((in >> 14) & 0xc) | (in & ~0x3fffc)
dword_remap(in_addr) ==
  ((((in_addr \div 4) % 16384) * 16)          \* bits 2..15 to bits 4..17
   + (((in_addr \div 65536) % 4) * 4))        \* bits 16..17 to bits 2..3
   + (((in_addr \div 262144) * 262144)        \* bits 18 and up
   + (in_addr % 4))                           \* bits 0..1

\* addr += ((i & 3) == 3) ? 0x0d : 0x01
ExtNext(addr, i) == addr + (IF i % 4 = 3 THEN 13 ELSE 1)

\* one byte access of an extended handler, in the shape of a pixel step
ExtStep(t, addr, wrote, chg, val) ==
  [ x |-> 0, y |-> 0, dx |-> 0, dy |-> 0, ok |-> TRUE, wrote |-> wrote,
    raw |-> addr, idx |-> addr, sidx |-> addr, bytes |-> 1, chg |-> chg,
    src |-> U32Zero, dst |-> U32Zero, pat |-> U32Zero, out |-> <<val, 0, 0, 0>> ]

\* the latch fill of tgui_ext_linear_read: the address is not masked inside
\* the loop; s holds the device, the running address, the loop counter and
\* the accesses made
RECURSIVE ExtReadLoop(_)
ExtReadLoop(s) ==
  IF s.i = 16 THEN s
  ELSE ExtReadLoop(
         [t |-> [s.t EXCEPT !.copy_latch = Put(@, s.i, VramByte(s.t, s.addr))],
          addr |-> ExtNext(s.addr, s.i),
          i |-> s.i + 1,
          steps |-> Append(s.steps,
                           ExtStep(s.t, s.addr, FALSE, {}, VramByte(s.t, s.addr)))])

\* the byte returned after the latch fill r, from the address it ended at
ExtReadByte(r, a3) ==
  [t |-> r.t, ret |-> VramByte(r.t, a3),
   steps |-> Append(r.steps, ExtStep(r.t, a3, FALSE, {}, VramByte(r.t, a3)))]

tgui_ext_linear_read(addr0, t) ==
  LET a1 == addr0 % (decode_mask(t) + 1)
      a2 == dword_remap(((a1 % (svga_vram_mask + 1)) \div 16) * 16)
      r  == ExtReadLoop([t |-> t, addr |-> a2, i |-> 0, steps |-> <<>>])
  IN IF a1 >= svga_vram_max THEN [t |-> t, ret |-> 255, steps |-> <<>>]
     ELSE ExtReadByte(r, r.addr % (svga_vram_mask + 1))

\* the byte an extended write stores for bit i of the data, or -1 for none;
\* bits: the data, most significant bit first; mask: the write mask
ExtData(t, bits, mask, i) ==
  LET g   == GdcReg(t, 16)
      hi  == And16(g, EXT_CTRL_16BIT) # 0
      fg  == IF hi /\ (i % 2 = 1) THEN GdcReg(t, 21) ELSE GdcReg(t, 20)
      bg  == IF hi /\ (i % 2 = 1) THEN GdcReg(t, 18) ELSE GdcReg(t, 17)
      set == bits[i + 1] = 1
  IN IF And16(g, EXT_CTRL_LATCH_COPY) # 0
       THEN (IF set THEN Get(t.copy_latch, i, 0) ELSE -1)
     ELSE IF And16(g, EXT_CTRL_MONO_TRANSPARENT) # 0
       THEN (IF set THEN fg ELSE -1)
     ELSE IF mask[i + 1] = 1 THEN (IF set THEN fg ELSE bg)
     ELSE -1

\* the store loop of tgui_ext_linear_write (n = 8) and _writew (n = 16); s
\* holds the device, the running address, the loop counter and the stores made
RECURSIVE ExtWriteLoop(_, _, _, _, _)
ExtWriteLoop(s, n, bits, mask, chg) ==
  IF s.i = n THEN [t |-> s.t, steps |-> s.steps]
  ELSE LET d == ExtData(s.t, bits, mask, s.i)
       IN ExtWriteLoop(
            [t |-> IF d >= 0 THEN [s.t EXCEPT !.vram = Put(@, s.addr, d)] ELSE s.t,
             addr |-> ExtNext(s.addr, s.i) % (svga_vram_mask + 1),
             i |-> s.i + 1,
             steps |-> IF d >= 0
                         THEN Append(s.steps, ExtStep(s.t, s.addr, TRUE, chg, d))
                       ELSE s.steps],
            n, bits, mask, chg)

\* bit i (0 = most significant) of an n-bit value
MsbBits(v, n) == [i \in 1..n |-> Bit(v, n - i)]

tgui_ext_linear_write(addr0, val, t) ==
  LET a1 == addr0 % (decode_mask(t) + 1)
      al == IF And16(GdcReg(t, 16), EXT_CTRL_LATCH_COPY) # 0 THEN 16 ELSE 8
      a2 == dword_remap(((a1 % (svga_vram_mask + 1)) \div al) * al)
      t1 == [t EXCEPT !.changedvram = @ \cup {a2 \div 4096}]
  IN IF a1 >= svga_vram_max THEN [t |-> t, steps |-> <<>>]
     ELSE ExtWriteLoop([t |-> t1, addr |-> a2, i |-> 0, steps |-> <<>>], 8,
                       MsbBits(val, 8), MsbBits(GdcReg(t, 23), 8), {a2 \div 4096})

\* val is a 16-bit value; the handler swaps its bytes before use and takes
\* the mask from gdcreg[0x18] | (gdcreg[0x17] << 8)
tgui_ext_linear_writew(addr0, val, t) ==
  LET a1 == addr0 % (decode_mask(t) + 1)
      a2 == dword_remap(((a1 % (svga_vram_mask + 1)) \div 16) * 16)
      sw == (val \div 256) + ((val % 256) * 256)
      t1 == [t EXCEPT !.changedvram = @ \cup {a2 \div 4096}]
  IN IF a1 >= svga_vram_max THEN [t |-> t, steps |-> <<>>]
     ELSE ExtWriteLoop([t |-> t1, addr |-> a2, i |-> 0, steps |-> <<>>], 16,
                       MsbBits(sw, 16),
                       MsbBits(GdcReg(t, 24) + (256 * GdcReg(t, 23)), 16),
                       {a2 \div 4096})


-----------------------------------------------------------------------------
(* video.c: the blit worker of a monitor. blit_data_t holds the rectangle, *)
(* the flags busy, buffer_in_use and thread_run, and the events; the       *)
(* events keep their state until thread_reset_event. Every access to a     *)
(* shared field is one step of the thread that makes it, so a racing read  *)
(* of the plain int busy sees either value.                                *)

\* video_monitor_init: calloc, thread_run = 1, the events created unset, the
\* worker created and the target buffer allocated; no request made yet
BlitInit ==
  [ x |-> 0, y |-> 0, w |-> 0, h |-> 0,
    busy |-> 0, buffer_in_use |-> 0, thread_run |-> 1,
    wake_blit_thread |-> 0, blit_complete |-> 0,
    target_buffer |-> 1,
    worker |-> "test", producer |-> "idle", closer |-> "idle",
    req |-> <<0, 0, 0, 0>>,
    calls |-> 0, accepted |-> 0, invoked |-> 0, completed |-> 0,
    blocked |-> FALSE, copied |-> <<>>,
    asked |-> <<>>, copies |-> <<>> ]

\* the worker that clears busy and loses the completion signal
WorkerSignal_lost(d) ==
  [d EXCEPT !.completed = @ + 1, !.worker = "test"]

\* blit_thread: thread_set_event(data->blit_complete), then the loop test
WorkerSignal(d) ==
  [d EXCEPT !.blit_complete = 1, !.completed = @ + 1, !.worker = "test"]

\* blit_thread can take a step: it is not blocked in thread_wait_event
WorkerCanStep(d) ==
  /\ d.target_buffer = 1
  /\ d.worker \notin {"exit", "inblit"}
  /\ d.worker = "wait" => d.wake_blit_thread = 1

\* blit_thread, one step
blit_thread(d) ==
  CASE d.worker = "test" ->
         [d EXCEPT !.worker = IF d.thread_run # 0 THEN "wait" ELSE "exit"]
    [] d.worker = "wait" -> [d EXCEPT !.worker = "reset"]
    [] d.worker = "reset" -> [d EXCEPT !.wake_blit_thread = 0, !.worker = "call"]
    [] d.worker = "call" ->
         [d EXCEPT !.worker = "inblit", !.invoked = @ + 1,
                   !.copied = <<d.x, d.y, d.w, d.h, d.busy>>,
                   !.copies = Append(@, <<d.x, d.y, d.w, d.h>>)]
    [] d.worker = "clear" -> [d EXCEPT !.busy = 0, !.worker = "signal"]
    [] d.worker = "signal" -> WorkerSignal(d)

\* blit_func returns to blit_thread
blit_return(d) == [d EXCEPT !.worker = "clear"]

\* video_blit_memtoscreen_monitor called with the rectangle r: rejected when
\* w <= 0 or h <= 0, else it goes on to video_wait_for_blit_monitor
blit_request(r, d) ==
  IF r[3] <= 0 \/ r[4] <= 0 THEN [d EXCEPT !.calls = @ + 1]
  ELSE [d EXCEPT !.calls = @ + 1, !.accepted = @ + 1, !.req = r,
                 !.asked = Append(@, r), !.producer = "test"]

\* the producer can take a step: it is in a request and not blocked in
\* thread_wait_event
ProducerCanStep(d) ==
  /\ d.target_buffer = 1
  /\ d.producer # "idle"
  /\ d.producer = "wait" => d.blit_complete = 1

\* a wait that goes on whether the worker is busy or not
video_wait_for_blit_monitor_nowait(d) ==
  [d EXCEPT !.producer = "reset"]

\* video_wait_for_blit_monitor: the test of while (blit_data_ptr->busy)
video_wait_for_blit_monitor(d) ==
  IF d.busy # 0 THEN [d EXCEPT !.producer = "wait", !.blocked = TRUE]
  ELSE [d EXCEPT !.producer = "reset"]

\* video_wait_for_blit_monitor and the rest of
\* video_blit_memtoscreen_monitor, one step
video_blit_memtoscreen_monitor(d) ==
  CASE d.producer = "test" -> video_wait_for_blit_monitor(d)
    [] d.producer = "wait" -> [d EXCEPT !.producer = "test"]
    [] d.producer = "reset" -> [d EXCEPT !.blit_complete = 0, !.producer = "mark"]
    [] d.producer = "mark" ->
         [d EXCEPT !.busy = 1, !.buffer_in_use = 1, !.producer = "rect"]
    [] d.producer = "rect" ->
         [d EXCEPT !.x = d.req[1], !.y = d.req[2], !.w = d.req[3], !.h = d.req[4],
                   !.producer = "wake"]
    [] d.producer = "wake" -> [d EXCEPT !.wake_blit_thread = 1, !.producer = "idle"]

\* the closing thread can take a step: thread_wait returns when the worker
\* has left its loop
CloserCanStep(d) ==
  /\ d.closer # "closed"
  /\ d.closer = "idle" => d.target_buffer = 1
  /\ d.closer = "join" => d.worker = "exit"

\* video_monitor_close, one step
video_monitor_close(d) ==
  CASE d.closer = "idle" -> [d EXCEPT !.thread_run = 0, !.closer = "wake"]
    [] d.closer = "wake" -> [d EXCEPT !.wake_blit_thread = 1, !.closer = "join"]
    [] d.closer = "join" -> [d EXCEPT !.target_buffer = 0, !.closer = "closed"]
-----------------------------------------------------------------------------
(* Bounds of the model.                                                    *)

MaxW     == 2   \* size_x of the modelled rectangles is in 0..MaxW
MaxH     == 1   \* size_y of the modelled rectangles is in 0..MaxH
MaxLen   == 2   \* the length field of Size Y is in 0..MaxLen
MaxOps   == 1   \* handler calls after the register set-up
MaxFeeds == 2   \* 4-byte units of a CPU data stream

ChipTypes == {TGUI_9400CXI, TGUI_9440, TGUI_9660, TGUI_9680}
\* display depths (svga->bpp) of the accelerated modes
Depths == {8, 16, 32}

-----------------------------------------------------------------------------
(* Which handlers the bus reaches.                                         *)

\* tgui_set_io: the accelerator ports exist on the 9440 and later only, and
\* only these ranges of 0x2100..0x21ff are registered
AccelPortMapped(t, addr) ==
  /\ t.type >= TGUI_9440
  /\ (addr - AccelBase) \in ({32, 34, 35, 36, 39} \cup (40..53) \cup (56..75)
                           \cup (104..107) \cup (120..255))

\* tgui_recalcmapping: the register aperture is placed by crtc[0x36] & 3;
\* with linear addressing on, on the 9440 and later only
AccelApertureMapped(t) ==
  /\ t.crtc36 % 4 # 0
  /\ (LinearOn(t) => t.type >= TGUI_9440)

\* tgui_recalcmapping: the linear aperture has the tgui_accel_write_fb_
\* handlers on the 9440 and later, while linear addressing is on
FbMapped(t) == t.type >= TGUI_9440 /\ LinearOn(t)

-----------------------------------------------------------------------------
(* Register set-up.  The driver sets the mode and the accelerator          *)
(* registers up with a script of writes, one write per step; the commands  *)
(* and the data come after the script.                                     *)

\* tgui_out, port 0x3D5: crtc[0x21], crtc[0x36] and crtc[0x38] are stored
\* as written; a changed value recalculates the timings
crtc_write(idx, val, t) ==
  LET old == CASE idx = 33 -> t.crtc21 [] idx = 54 -> t.crtc36
               [] idx = 56 -> t.crtc38 [] OTHER -> val
      t1 == CASE idx = 33 -> [t EXCEPT !.crtc21 = val]
              [] idx = 54 -> [t EXCEPT !.crtc36 = val]
              [] idx = 56 -> [t EXCEPT !.crtc38 = val]
              [] OTHER -> t
  IN IF old # val THEN tgui_recalctimings(t1) ELSE t1

\* tgui_in, port 0x3C6: the fifth read in a row returns the RAMDAC control
\* byte, the reads before it count up
ramdac_in(t) ==
  IF t.type = TGUI_9400CXI \/ t.ramdac_state = 4 THEN t
  ELSE [t EXCEPT !.ramdac_state = @ + 1]

\* tgui_out, port 0x3C6: after four reads the write sets the RAMDAC control
\* byte and recalculates the timings
ramdac_out(val, t) ==
  IF t.type = TGUI_9400CXI \/ t.ramdac_state # 4 THEN t
  ELSE tgui_recalctimings([t EXCEPT !.ramdac_state = 0, !.ramdac_ctrl = val])

\* one write of a script: <<kind, index or register offset, value>>; the
\* accelerator registers are written through the register aperture
RegWrite(w, t) ==
  CASE w[1] = "crtc" -> [t |-> crtc_write(w[2], w[3], t), steps |-> <<>>]
    [] w[1] = "gdc"  -> [t |-> gdc_write(w[2], w[3], t), steps |-> <<>>]
    [] w[1] = "write_b" -> tgui_accel_write(ApertBase + w[2], w[3], t)
    [] w[1] = "write_w" -> tgui_accel_write_w(ApertBase + w[2],
                             <<U16(w[3]) % 256, U16(w[3]) \div 256>>, t)
    [] w[1] = "write_l" -> tgui_accel_write_l(ApertBase + w[2], w[3], t)

\* the address and the value of a script write
WriteAddr(w) == IF w[1] \in {"crtc", "gdc"} THEN w[2] ELSE ApertBase + w[2]

WriteVal(w) ==
  IF w[1] = "write_l" THEN w[3]
  ELSE IF w[1] = "write_w" THEN <<U16(w[3]) % 256, U16(w[3]) \div 256, 0, 0>>
  ELSE <<w[3], 0, 0, 0>>

\* c.clip is <<left, top, right, bottom>>; c.gdc a sequence of gdc writes;
\* c.cmd the command code written last (0: the script starts no command)
Script(c) ==
  << <<"crtc", 33, c.crtc21>>, <<"crtc", 54, 2>>,
     <<"write_w", 34, 0>>,                 \* ger22: derives accel.bpp
     <<"write_b", 39, c.rop>>, <<"write_l", 40, ToU32(c.flags)>>,
     <<"write_l", 44, c.fg>>, <<"write_l", 48, c.bg>>,
     <<"write_w", 56, c.dst_x>>, <<"write_w", 58, c.dst_y>>,
     <<"write_w", 60, c.src_x>>, <<"write_w", 62, c.src_y>>,
     <<"write_w", 64, c.size_x>>, <<"write_w", 66, c.size_y>>,
     <<"write_w", 72, c.clip[1]>>, <<"write_w", 74, c.clip[2]>>,
     <<"write_w", 76, c.clip[3]>>, <<"write_w", 78, c.clip[4]>> >>
  \o c.gdc
  \o (IF c.cmd = 0 THEN <<>> ELSE << <<"write_b", 36, c.cmd>> >>)

FullClip == <<0, 0, 4095, 4095>>
\* columns 5..10 (8-bit class), 2..5 (16-bit), 1..2 (32-bit); row 5 only
PartClip == <<5, 5, 10, 5>>

\* linear addressing (crtc[0x21] bit 5) is on wherever the chip lets the
\* register aperture coexist with it
Crtc21For(type) == IF type >= TGUI_9440 THEN 32 ELSE 0

BaseSetup ==
  [ type |-> TGUI_9440, depth |-> 8, rowoffset |-> 2, crtc21 |-> 32,
    flags |-> 0, rop |-> 204, fg |-> <<226, 226, 226, 0>>, bg |-> <<17, 17, 17, 0>>,
    dst_x |-> 4, dst_y |-> 5, src_x |-> 1, src_y |-> 1,
    size_x |-> MaxW, size_y |-> MaxH, clip |-> FullClip, gdc |-> <<>>,
    cmd |-> TGUI_BITBLT ]

-----------------------------------------------------------------------------
(* The record of the last handler call, and the actions.                   *)

NoCall == [op |-> "none", addr |-> 0, val |-> U32Zero]

InitLast(t) ==
  [ op |-> "none", addr |-> 0, val |-> U32Zero, ret |-> U32Zero, steps |-> <<>>,
    pre |-> t, n |-> 0, hist |-> NoCall ]

\* the state a set-up starts from
Constructed(c) ==
  /\ tgui = TguiInit(c.type, c.depth, c.rowoffset)
  /\ todo = Script(c)
  /\ last = InitLast(tgui)
  /\ lanes = <<>>
  /\ blit = BlitInit

Call(op, addr, val, ret, steps) ==
  [ op |-> op, addr |-> addr, val |-> val, ret |-> ret, steps |-> steps,
    pre |-> tgui, n |-> last.n + 1,
    hist |-> [op |-> last.op, addr |-> last.addr, val |-> last.val] ]

\* the effect of the script write w, r the result of its handler; the write
\* is a handler call like any other, but does not count against the bound on
\* the calls that follow
Driven(w, r) ==
  /\ tgui' = r.t
  /\ last' = [Call(w[1], WriteAddr(w), WriteVal(w), U32Zero, r.steps) EXCEPT !.n = 0]
  /\ todo' = Tail(todo)
  /\ UNCHANGED <<lanes, blit>>

\* the next write of the driver's script
DriverWrite ==
  /\ todo # <<>>
  /\ Head(todo)[1] \in {"write_b", "write_w", "write_l"} => AccelApertureMapped(tgui)
  /\ Driven(Head(todo), RegWrite(Head(todo), tgui))

\* the set-up is done and fewer than max calls were made
Ready(max) == todo = <<>> /\ last.n < max

\* a handler that changes the device
Handler(op, addr, val, r) ==
  /\ tgui' = r.t
  /\ last' = Call(op, addr, val, U32Zero, r.steps)
  /\ UNCHANGED <<lanes, todo, blit>>

\* a handler that returns a value
Reader(op, addr, ret) ==
  /\ last' = Call(op, addr, U32Zero, ret, <<>>)
  /\ UNCHANGED <<tgui, lanes, todo, blit>>

CmdPort  == AccelBase + 36    \* 0x2124
CmdApert == ApertBase + 36    \* 0xbff24

\* byte port write
AccelOutB(addrs, vals) ==
  \E a \in addrs, v \in vals :
    /\ AccelPortMapped(tgui, a)
    /\ Handler("out_b", a, <<v, 0, 0, 0>>, tgui_accel_out(a, v, tgui))

\* 4-byte port write
AccelOutL(addrs, vals) ==
  \E a \in addrs, v \in vals :
    /\ AccelPortMapped(tgui, a)
    /\ Handler("out_l", a, v, tgui_accel_out_l(a, v, tgui))

\* 4-byte port read
AccelInL(addrs) ==
  \E a \in addrs :
    /\ AccelPortMapped(tgui, a)
    /\ Reader("in_l", a, tgui_accel_in_l(a, tgui))

\* byte write to the register aperture
AccelWriteB(addrs, vals) ==
  /\ AccelApertureMapped(tgui)
  /\ \E a \in addrs, v \in vals :
       Handler("write_b", a, <<v, 0, 0, 0>>, tgui_accel_write(a, v, tgui))

\* 4-byte write to the register aperture
AccelWriteL(addrs, vals) ==
  /\ AccelApertureMapped(tgui)
  /\ \E a \in addrs, v \in vals :
       Handler("write_l", a, v, tgui_accel_write_l(a, v, tgui))

\* 4-byte read of the register aperture
AccelReadL(addrs) ==
  /\ AccelApertureMapped(tgui)
  /\ \E a \in addrs : Reader("read_l", a, tgui_accel_read_l(a, tgui))

\* writes to the linear framebuffer aperture
FbWriteB(addrs, vals) ==
  /\ FbMapped(tgui)
  /\ \E a \in addrs, v \in vals :
       Handler("fb_b", a, <<v, 0, 0, 0>>, tgui_accel_write_fb_b(a, v, tgui))
FbWriteW(addrs, vals) ==
  /\ FbMapped(tgui)
  /\ \E a \in addrs, v \in vals :
       Handler("fb_w", a, <<v[1], v[2], 0, 0>>, tgui_accel_write_fb_w(a, v, tgui))
FbWriteL(addrs, vals) ==
  /\ FbMapped(tgui)
  /\ \E a \in addrs, v \in vals :
       Handler("fb_l", a, v, tgui_accel_write_fb_l(a, v, tgui))

\* the TGUI9400CXi extended handlers; the read returns a byte and reloads
\* the copy latch
ExtReturned(a, r) ==
  /\ tgui' = r.t
  /\ last' = Call("ext_read", a, U32Zero, <<r.ret, 0, 0, 0>>, r.steps)
  /\ UNCHANGED <<lanes, todo, blit>>
ExtRead(addrs) ==
  /\ ExtReadMapped(tgui)
  /\ \E a \in addrs : ExtReturned(a, tgui_ext_linear_read(a, tgui))
ExtWrite(addrs, vals) ==
  /\ ExtWriteMapped(tgui)
  /\ \E a \in addrs, v \in vals :
       Handler("ext_write", a, <<v, 0, 0, 0>>, tgui_ext_linear_write(a, v, tgui))
ExtWriteW(addrs, vals) ==
  /\ ExtWriteMapped(tgui)
  /\ \E a \in addrs, v \in vals :
       Handler("ext_writew", a, <<v % 256, v \div 256, 0, 0>>,
               tgui_ext_linear_writew(a, v, tgui))

-----------------------------------------------------------------------------
(* SpecRop: the raster-operation unit on its own.                          *)

\* operand words; the first of each set puts all eight (p, s, d) bit
\* combinations into the bits of one byte
RopD == {<<170, 0, 255, 15>>, U32Ones}
RopS == {<<204, 255, 0, 51>>, U32Zero}
RopP == {<<240, 90, 165, 85>>, <<1, 2, 4, 128>>}

\* the set-up writes any code to the ROP register
InitRop ==
  \E c \in 0..255 :
    /\ tgui = TguiInit(TGUI_9440, 8, 2)
    /\ todo = << <<"crtc", 54, 2>>, <<"write_b", 39, c>> >>
    /\ last = InitLast(tgui)
    /\ lanes = <<>>
    /\ blit = BlitInit

\* MIX() on operands D, P, S with the current raster-op code
MixProbe ==
  \E D \in RopD, P \in RopP, S \in RopS :
    /\ todo = <<>>
    /\ last' = [InitLast(tgui) EXCEPT !.op = "mix", !.val = <<D, P, S>>,
                                      !.ret = MIX(tgui, D, P, S)]
    /\ UNCHANGED <<tgui, lanes, todo, blit>>

NextRop == DriverWrite \/ MixProbe
SpecRop == InitRop /\ [][NextRop]_vars

\* C2: for every raster-op code and all operands, each bit of the mix result
\* is bit ((p << 2) | (s << 1) | d) of the code, p, s, d being the bits of the
\* pattern, the source and the destination at that position; so 0x00 gives
\* 0, 0xFF all ones, 0xAA D, 0xCC S, 0xF0 P, 0x66 D xor S, 0x88 D and S,
\* 0xEE D or S, 0x5A D xor P.
RopTruthTable ==
  last.op = "mix" =>
    LET D == last.val[1]
        P == last.val[2]
        S == last.val[3]
    IN /\ \A k \in 0..31 :
            WBit(last.ret, k)
              = Bit(tgui.rop, (4 * WBit(P, k)) + (2 * WBit(S, k)) + WBit(D, k))
       /\ tgui.rop = 0   => last.ret = U32Zero
       /\ tgui.rop = 255 => last.ret = U32Ones
       /\ tgui.rop = 170 => last.ret = D
       /\ tgui.rop = 204 => last.ret = S
       /\ tgui.rop = 240 => last.ret = P
       /\ tgui.rop = 102 => last.ret = [i \in 1..4 |-> Xor8(D[i], S[i])]
       /\ tgui.rop = 136 => last.ret = [i \in 1..4 |-> And8(D[i], S[i])]
       /\ tgui.rop = 238 => last.ret = [i \in 1..4 |-> Or8(D[i], S[i])]
       /\ tgui.rop = 90  => last.ret = [i \in 1..4 |-> Xor8(D[i], P[i])]

\* a mix of the three distinguishing operands under D xor P
RopMixed ==
  /\ last.op = "mix"
  /\ tgui.rop = 90
  /\ last.val = <<<<170, 0, 255, 15>>, <<240, 90, 165, 85>>, <<204, 255, 0, 51>>>>
  /\ last.ret = <<90, 90, 90, 90>>

-----------------------------------------------------------------------------
(* SpecReg: the register file through the ports.                           *)

\* the 32-bit read/write registers: flags, foreground colour, background
\* colour, style, colour key (0x2128, 0x212c, 0x2130, 0x2144, 0x2168)
Reg32 == {AccelBase + 40, AccelBase + 44, AccelBase + 48, AccelBase + 68, AccelBase + 104}
Reg32Bytes == {a + k : a \in Reg32, k \in 0..3}
RegWords == {<<120, 86, 52, 18>>, <<0, 0, 255, 0>>, U32Ones}
RegBytes == {0, 165}

InitReg ==
  \E ty \in {TGUI_9440, TGUI_9680} :
    /\ tgui = TguiInit(ty, 8, 2)
    /\ todo = <<>>
    /\ last = InitLast(tgui)
    /\ lanes = <<>>
    /\ blit = BlitInit

NextReg ==
  \/ Ready(MaxOps + 1) /\ AccelOutL(Reg32, RegWords)
  \/ Ready(MaxOps + 1) /\ AccelOutB(Reg32Bytes, RegBytes)
  \/ Ready(MaxOps + 1) /\ AccelInL(Reg32)
SpecReg == InitReg /\ [][NextReg]_vars

\* the 32-bit register a byte address belongs to
RegOf(a) == CHOOSE r \in Reg32 : a \in r..(r + 3)

\* C9: a 4-byte write of V to a 32-bit read/write register followed by a
\* 4-byte read of the same address returns V, and a 1-byte write to one byte
\* of such a register changes only that byte of it.
RegisterRoundTrip ==
  /\ (last.op = "in_l" /\ last.hist.op = "out_l" /\ last.hist.addr = last.addr)
       => last.ret = last.hist.val
  /\ last.op = "out_b" =>
       \A k \in 0..3 :
         (RegOf(last.addr) + k # last.addr)
           => tgui_accel_in(RegOf(last.addr) + k, tgui)
                = tgui_accel_in(RegOf(last.addr) + k, last.pre)

-----------------------------------------------------------------------------
(* SpecLine: short-vector and fast-line commands on the 9660 and 9680.     *)

\* Size Y as the driver writes it for direction code k and length n
SizeYCode(k, n) == (k * 8192) + n

LineSetups ==
  { [BaseSetup EXCEPT !.type = ty, !.crtc21 = Crtc21For(ty), !.rop = 240,
                      !.size_x = 0, !.size_y = SizeYCode(k, n),
                      !.clip = cl, !.cmd = cmd] :
      ty \in {TGUI_9660, TGUI_9680}, k \in 0..7, n \in 0..MaxLen,
      cl \in {FullClip, PartClip}, cmd \in {TGUI_SHORTVECTOR, TGUI_FASTLINE} }

InitLine == \E c \in LineSetups : Constructed(c)
NextLine == DriverWrite
SpecLine == InitLine /\ [][NextLine]_vars

\* the last call was a byte write of command code c to the command register
Started(c) ==
  last.op = "write_b" /\ last.addr = CmdApert /\ last.val[1] = c

\* the pixels of a sequence of steps, in order: index, written or not, data
Pixels(steps) ==
  [i \in 1..Len(steps) |-> <<steps[i].idx, steps[i].wrote, steps[i].out>>]

\* C10: on the 9660 and 9680, for every direction code k and length n
\* written to Size Y, a fast-line command draws the same pixels in the same
\* order as a short-vector command with the same k and n: it steps in
\* direction k.
FastLineAsShortVector ==
  (Started(TGUI_FASTLINE) /\ tgui.type >= TGUI_9660) =>
    LET sv == tgui_accel_write(CmdApert, TGUI_SHORTVECTOR, last.pre).steps
        mv == VectorMove((last.pre.sv_size_y \div 8192) * 32)
    IN /\ Pixels(last.steps) = Pixels(sv)
       /\ \A i \in 1..Len(last.steps) :
            /\ last.steps[i].dx = (last.pre.dst_x + ((i - 1) * mv.dx)) % 4096
            /\ last.steps[i].dy = (last.pre.dst_y + ((i - 1) * mv.dy)) % 4096

-----------------------------------------------------------------------------
(* SpecCmd: the 4-byte write of command and ROP together.                  *)

\* display-sourced rectangles and short vectors, started by the long write
CmdSetups ==
  { [BaseSetup EXCEPT !.type = ty, !.crtc21 = Crtc21For(ty), !.flags = fl,
                      !.depth = d, !.size_y = SizeYCode(7, MaxH), !.cmd = 0] :
      ty \in {TGUI_9400CXI, TGUI_9440, TGUI_9660},
      fl \in {TGUI_SRCDISP, TGUI_SRCDISP + TGUI_SOLIDFILL}, d \in {8, 16} }

\* V: command in the low byte, ROP in the top byte, two middle bytes
CmdVals ==
  { <<c, m[1], m[2], r>> : c \in {TGUI_BITBLT, TGUI_SHORTVECTOR},
                           m \in {<<0, 0>>, <<102, 255>>}, r \in {90, 204} }

InitCmd == \E c \in CmdSetups : Constructed(c)
NextCmd ==
  \/ DriverWrite
  \/ Ready(MaxOps) /\ AccelOutL({CmdPort}, CmdVals)
  \/ Ready(MaxOps) /\ AccelWriteL({CmdApert}, CmdVals)
SpecCmd == InitCmd /\ [][NextCmd]_vars

\* the last call was a 4-byte write to the command address
LongStart ==
  \/ last.op = "out_l" /\ last.addr = CmdPort
  \/ last.op = "write_l" /\ last.addr = CmdApert

\* the same 4-byte write with the two middle bytes of V zero
ZeroMiddle ==
  LET v == <<last.val[1], 0, 0, last.val[4]>>
  IN IF last.op = "out_l" THEN tgui_accel_out_l(last.addr, v, last.pre)
     ELSE tgui_accel_write_l(last.addr, v, last.pre)

\* pixels one start of the command steps through
StartPixels(t, command) ==
  IF command = TGUI_BITBLT THEN (t.size_x + 1) * (t.size_y + 1)
  ELSE (t.sv_size_y % 4096) + 1

\* C8: a 4-byte write of V to the command address (port 0x2124 or aperture
\* offset 0x24) sets the command code to the low byte of V and the ROP to
\* the top byte of V, then starts the command exactly once: every pixel it
\* steps through is stepped through once, mixed from the content it had
\* before the write, and written with the new ROP; the two middle bytes of
\* V change nothing.
CommandRopAtomic ==
  LongStart =>
    /\ tgui.command = last.val[1]
    /\ tgui.rop = last.val[4]
    /\ Len(last.steps) = StartPixels(last.pre, last.val[1])
    /\ \A i \in 1..Len(last.steps) :
         LET s == last.steps[i]
         IN /\ s.dst = READ(last.pre, s.raw)
            /\ \A j \in 1..Len(last.steps) : last.steps[j].idx = s.idx => j = i
            /\ s.wrote => /\ s.out = Word(ROPMIX(last.val[4], Bits(s.dst), Bits(s.pat), Bits(s.src)))
                          /\ READ(tgui, s.raw) = MaskBpp(tgui, s.out)
    /\ tgui = ZeroMiddle.t
    /\ last.steps = ZeroMiddle.steps

\* a long start that drew with a ROP other than the one in force before it
CommandRopStarted ==
  /\ LongStart
  /\ last.val[2] # 0
  /\ last.pre.rop # last.val[4]
  /\ \E i \in 1..Len(last.steps) :
       last.steps[i].wrote /\ last.steps[i].out # last.steps[i].src

-----------------------------------------------------------------------------
(* SpecBlt: block transfers in the three source modes, and their feeds.    *)

\* source modes: CPU colour, CPU monochrome, display; with and without
\* transparency.  The display source starts at a byte equal to the
\* background colour.
BltFlags ==
  { TGUI_SRCCPU, TGUI_SRCCPU + TGUI_TRANSENA, TGUI_SRCMONO + TGUI_TRANSENA,
    TGUI_SRCDISP + TGUI_TRANSENA, TGUI_SRCMONO + TGUI_TRANSENA + TGUI_TRANSREV }

BltSetups ==
  { [BaseSetup EXCEPT !.type = ty, !.depth = d, !.flags = fl,
                      !.src_x = 2, !.src_y = 0] :
      ty \in {TGUI_9440, TGUI_9660}, d \in Depths, fl \in BltFlags }

\* data fed through the linear aperture; 17 is the background colour
\* the feeds go to the start of the linear aperture
FeedAddrs == {0}
FeedBytes == {17, 90}
FeedPairs == {<<17, 17>>, <<90, 17>>}
FeedWords == {<<17, 17, 17, 0>>, <<90, 17, 17, 0>>}

InitBlt == \E c \in BltSetups : Constructed(c)
NextBlt ==
  \/ DriverWrite
  \/ Ready(MaxOps) /\ FbWriteB(FeedAddrs, FeedBytes)
  \/ Ready(MaxOps) /\ FbWriteW(FeedAddrs, FeedPairs)
  \/ Ready(MaxOps) /\ FbWriteL(FeedAddrs, FeedWords)
SpecBlt == InitBlt /\ [][NextBlt]_vars

\* flags & (TGUI_SRCMONO | TGUI_SRCDISP)
SrcMode(t) == And16(Lo16(t.flags), TGUI_SRCMONO + TGUI_SRCDISP)

\* the last call ran the block-transfer engine: a start, or a feed
BltRan ==
  /\ tgui.command = TGUI_BITBLT
  /\ \/ Started(TGUI_BITBLT)
     \/ last.op \in {"fb_b", "fb_w", "fb_l"} /\ last.pre.write_blitter # 0

\* C3: in every source mode of a block transfer, with the transparency
\* flag set, a source pixel equal to the transparent colour leaves the
\* destination pixel unchanged and every other source pixel is written
\* with the result of the selected ROP.
TransparencySuppression ==
  (BltRan /\ FlagSet(last.pre, TGUI_TRANSENA)) =>
    \A i \in 1..Len(last.steps) :
      LET s == last.steps[i]
      IN s.ok =>
           IF s.src = trans_col(last.pre)
             THEN ~s.wrote /\ READ(tgui, s.raw) = s.dst
           ELSE /\ s.wrote
                /\ s.out = Word(ROPMIX(last.pre.rop, Bits(s.dst), Bits(s.pat), Bits(s.src)))

\* bytes a feed call supplies
FeedSize == CASE last.op = "fb_b" -> 1 [] last.op = "fb_w" -> 2 [] OTHER -> 4

\* C5: a feed of n bytes to an in-progress CPU-sourced colour block
\* transfer processes at most n pixels in the 8-bit class, n/2 in the
\* 16-bit class and n/4 in the 32-bit class.
FeedBudget ==
  ( /\ last.op \in {"fb_b", "fb_w", "fb_l"}
    /\ last.pre.write_blitter # 0
    /\ last.pre.command = TGUI_BITBLT
    /\ SrcMode(last.pre) = TGUI_SRCCPU ) =>
    Len(last.steps) * PixBytes(last.pre) <= FeedSize

-----------------------------------------------------------------------------
(* SpecCopy: display-to-display copies of every size and direction.        *)

\* flags bit 0x100: bottom to top; bit 0x200: right to left
CopySetups ==
  { [BaseSetup EXCEPT !.type = ty, !.depth = d,
                      !.crtc21 = Crtc21For(ty),
                      !.flags = TGUI_SRCDISP + dir,
                      !.src_x = 3, !.src_y = 2, !.dst_x = 8, !.dst_y = 6,
                      !.size_x = w, !.size_y = h] :
      ty \in ChipTypes, d \in Depths, dir \in {0, 256, 512, 768},
      w \in 0..MaxW, h \in 0..MaxH }

InitCopy == \E c \in CopySetups : Constructed(c)
NextCopy == DriverWrite
SpecCopy == InitCopy /\ [][NextCopy]_vars

\* pixel (x, y) of the rectangle at register origin (ox, oy), walked in the
\* directions of the flags
RectPixel(t, ox, oy, x, y) ==
  (ox + (xdir(t) * x)) + ((oy + (ydir(t) * y)) * Pitch(t))

CopySrc(t) ==
  { PixIndex(t, RectPixel(t, t.src_x, t.src_y, x, y)) : x \in 0..t.size_x, y \in 0..t.size_y }
CopyDst(t) ==
  { PixIndex(t, RectPixel(t, t.dst_x, t.dst_y, x, y)) : x \in 0..t.size_x, y \in 0..t.size_y }

\* a started display-to-display copy, rop 0xCC, transparency off, whose
\* W x H destination pixels are distinct and disjoint from the source
PlainCopy ==
  /\ Started(TGUI_BITBLT)
  /\ SrcMode(last.pre) = TGUI_SRCDISP
  /\ last.pre.rop = 204
  /\ ~FlagSet(last.pre, TGUI_TRANSENA)
  /\ CopySrc(last.pre) \cap CopyDst(last.pre) = {}
  /\ Cardinality(CopyDst(last.pre)) = (last.pre.size_x + 1) * (last.pre.size_y + 1)

\* C6: a display-to-display block transfer with rop 0xCC and transparency
\* off whose source and destination rectangles do not overlap leaves every
\* destination pixel of the W x H rectangle equal to the corresponding
\* source pixel, for every W and H and both directions on each axis.
CopyFidelity ==
  PlainCopy =>
    \A x \in 0..last.pre.size_x, y \in 0..last.pre.size_y :
      READ(tgui, RectPixel(last.pre, last.pre.dst_x, last.pre.dst_y, x, y))
        = READ(last.pre, RectPixel(last.pre, last.pre.src_x, last.pre.src_y, x, y))

\* a copy of the largest rectangle, right to left and bottom to top, done
CopiedBackwards ==
  /\ PlainCopy
  /\ last.pre.size_x = MaxW /\ last.pre.size_y = MaxH
  /\ xdir(last.pre) = -1 /\ ydir(last.pre) = -1
  /\ READ(tgui, last.pre.dst_x + (last.pre.dst_y * Pitch(last.pre)))
       # READ(last.pre, last.pre.dst_x + (last.pre.dst_y * Pitch(last.pre)))

-----------------------------------------------------------------------------
(* Spec: every handler, on every chip, with a clip box that cuts the       *)
(* drawing, with addresses past the end of video memory, and with the      *)
(* TGUI9400CXi extended modes.                                             *)

\* pattern fill, CPU colour transfer and the three line commands, drawn
\* across the edge of the clip box
ClipSetups ==
  { [BaseSetup EXCEPT !.type = ty, !.crtc21 = Crtc21For(ty), !.depth = d,
                      !.flags = k[1], !.rop = k[2], !.cmd = k[3],
                      !.size_y = IF k[3] = TGUI_BITBLT THEN MaxH ELSE MaxLen,
                      !.clip = PartClip] :
      ty \in ChipTypes, d \in {8, 16},
      k \in { <<TGUI_SRCPAT + TGUI_SOLIDFILL, 240, TGUI_BITBLT>>,
              <<TGUI_SRCCPU, 204, TGUI_BITBLT>>,
              <<0, 240, TGUI_BRESENHAMLINE>>,
              <<0, 240, TGUI_SHORTVECTOR>>,
              <<0, 240, TGUI_FASTLINE>> } }

\* a long scanline stride and rows whose addresses pass the memory size
FarSetups ==
  { [BaseSetup EXCEPT !.type = ty, !.crtc21 = Crtc21For(ty), !.depth = d,
                      !.rowoffset = 512, !.dst_y = y, !.src_y = 4095,
                      !.flags = k[1], !.rop = k[2], !.cmd = k[3],
                      !.size_y = IF k[3] = TGUI_BITBLT THEN MaxH ELSE MaxLen] :
      ty \in {TGUI_9400CXI, TGUI_9440, TGUI_9660}, d \in Depths, y \in {600, 65535},
      k \in { <<TGUI_SRCDISP, 204, TGUI_BITBLT>>,
              <<TGUI_SRCPAT + TGUI_SOLIDFILL, 240, TGUI_BITBLT>>,
              <<0, 240, TGUI_SHORTVECTOR>> } }

\* the extended modes of the TGUI9400CXi: gdcreg[0x10] and the colours
ExtSetups ==
  { [BaseSetup EXCEPT !.type = TGUI_9400CXI, !.crtc21 = c21, !.cmd = 0,
                      !.gdc = << <<"gdc", 20, 226>>, <<"gdc", 17, 17>>,
                                 <<"gdc", 23, 240>>, <<"gdc", 24, 15>>,
                                 <<"gdc", 16, g>> >>] :
      c21 \in {0, 16},
      g \in { EXT_CTRL_LATCH_COPY, EXT_CTRL_MONO_EXPANSION,
              EXT_CTRL_MONO_EXPANSION + EXT_CTRL_16BIT,
              EXT_CTRL_MONO_EXPANSION + EXT_CTRL_MONO_TRANSPARENT } }

\* addresses given to the extended handlers: the first and the last byte
\* of video memory, and the last byte of the decoded range
ExtAddrs == {0, vram_size - 1, 2097151}

Init == \E c \in ClipSetups \cup FarSetups \cup ExtSetups : Constructed(c)

Next ==
  \/ DriverWrite
  \/ Ready(MaxOps) /\ AccelOutB({AccelBase + 39, CmdPort}, {TGUI_BITBLT, 90})
  \/ Ready(MaxOps) /\ AccelOutL({CmdPort, AccelBase + 40}, {<<TGUI_BITBLT, 0, 0, 240>>})
  \/ Ready(MaxOps) /\ AccelInL({AccelBase + 40})
  \/ Ready(MaxOps) /\ AccelWriteB({CmdApert}, {TGUI_BITBLT, TGUI_BRESENHAMLINE})
  \/ Ready(MaxOps) /\ AccelWriteL({CmdApert}, {<<TGUI_SHORTVECTOR, 0, 0, 240>>})
  \/ Ready(MaxOps) /\ AccelReadL({ApertBase + 44})
  \/ Ready(MaxOps) /\ FbWriteB(FeedAddrs, FeedBytes)
  \/ Ready(MaxOps) /\ FbWriteW(FeedAddrs, {<<90, 17>>})
  \/ Ready(MaxOps) /\ FbWriteL(FeedAddrs, FeedWords)
  \/ Ready(MaxOps) /\ ExtRead(ExtAddrs)
  \/ Ready(MaxOps) /\ ExtWrite(ExtAddrs, {165})
  \/ Ready(MaxOps) /\ ExtWriteW(ExtAddrs, {42435})

Spec == Init /\ [][Next]_vars

-----------------------------------------------------------------------------
(* Claims about the clip box and about the bounds of video memory.         *)

\* the last call stepped the engine through pixels of a CPU- or
\* pattern-sourced block transfer, or of a line command
ClipChecked ==
  /\ last.steps # <<>>
  /\ last.op \notin {"ext_read", "ext_write", "ext_writew"}
  /\ \/ tgui.command = TGUI_BITBLT /\ SrcMode(last.pre) = TGUI_SRCCPU
     \/ tgui.command \in {TGUI_BRESENHAMLINE, TGUI_SHORTVECTOR, TGUI_FASTLINE}
  /\ ~FlagSet(last.pre, TGUI_TRANSENA)

\* the destination coordinate of a step: the line commands carry it in
\* dx, dy; a block transfer is at (dst_x, dst_y) moved by its counters
StepX(s) ==
  IF tgui.command = TGUI_BITBLT
    THEN (U16(last.pre.dst_x) % 4096) + (xdir(last.pre) * s.x)
  ELSE s.dx
StepY(s) ==
  IF tgui.command = TGUI_BITBLT
    THEN (U16(last.pre.dst_y) % 4096) + (ydir(last.pre) * s.y)
  ELSE s.dy

\* the step is outside the clip rectangle of the registers
OutsideClip(s) ==
  LET b == ClipSeed(last.pre)
  IN \/ StepX(s) < b.left \/ StepX(s) > b.right
     \/ StepY(s) < b.top \/ StepY(s) > b.bottom

\* C4 as stated: with the destination coordinate outside the clip
\* rectangle, the 9400CXi and the 9440 ignore the clip bounds and write
\* the pixel, while the 9660 and 9680 leave it unwritten.
ClipPolicyAsStated ==
  ClipChecked =>
    \A i \in 1..Len(last.steps) :
      OutsideClip(last.steps[i]) =>
        IF tgui.type \in {TGUI_9400CXI, TGUI_9440} THEN last.steps[i].wrote
        ELSE ~last.steps[i].wrote

\* C4: with the destination coordinate outside the clip rectangle, the
\* 9440 ignores the clip bounds and writes the pixel, the 9660 and 9680
\* leave it unwritten, and the 9400CXi writes no pixel of these commands,
\* inside the clip rectangle or outside it.
ClipPolicy ==
  ClipChecked =>
    \A i \in 1..Len(last.steps) :
      /\ tgui.type = TGUI_9400CXI => ~last.steps[i].wrote
      /\ OutsideClip(last.steps[i]) =>
           (last.steps[i].wrote <=> tgui.type = TGUI_9440)

\* a 9660 or 9680 transfer that wrote a pixel inside the clip rectangle and
\* skipped one outside it
ClipCut ==
  /\ ClipChecked
  /\ tgui.type >= TGUI_9660
  /\ tgui.command = TGUI_BITBLT
  /\ \E i, j \in 1..Len(last.steps) :
       /\ OutsideClip(last.steps[i]) /\ ~last.steps[i].wrote
       /\ ~OutsideClip(last.steps[j]) /\ last.steps[j].wrote

\* C7: every framebuffer index a drawing command reads or writes, at the
\* 8-, 16- and 32-bit class, and every index the extended handlers read or
\* write, lies inside the allocated video memory, and every
\* change-tracking index lies inside the change-tracking array.
FramebufferBounds ==
  /\ \A i \in 1..Len(last.steps) :
       LET s == last.steps[i]
       IN /\ s.idx >= 0 /\ (s.idx * s.bytes) + s.bytes <= VramAlloc
          /\ s.sidx >= 0 /\ (s.sidx * s.bytes) + s.bytes <= VramAlloc
          /\ s.chg \subseteq 0..(ChangedAlloc - 1)
  /\ DOMAIN tgui.vram \subseteq 0..(VramAlloc - 1)
  /\ tgui.changedvram \subseteq 0..(ChangedAlloc - 1)

\* a pixel written at an address that passed the end of video memory and
\* wrapped
WrappedWrite ==
  \E i \in 1..Len(last.steps) :
    /\ last.steps[i].wrote
    /\ last.steps[i].raw # last.steps[i].idx
    /\ (last.steps[i].idx * last.steps[i].bytes) \in DOMAIN tgui.vram

-----------------------------------------------------------------------------
(* SpecStream: one source byte stream fed to a CPU-sourced block transfer  *)
(* as 4-byte writes (tgui), as 2-byte writes (lanes.w) and as 1-byte       *)
(* writes (lanes.b), from the same registers and the same framebuffer.     *)

StreamSetups ==
  { [BaseSetup EXCEPT !.type = ty, !.depth = d, !.flags = TGUI_SRCCPU,
                      !.size_x = w, !.size_y = h] :
      ty \in {TGUI_9440, TGUI_9660}, d \in Depths, w \in 0..MaxW, h \in 0..MaxH }

\* the device after the bytes are written one at a time, at rising addresses
RECURSIVE FeedBytewise(_, _, _)
FeedBytewise(addr, bytes, t) ==
  IF bytes = <<>> THEN t
  ELSE FeedBytewise(addr + 1, Tail(bytes), tgui_accel_write_fb_b(addr, Head(bytes), t).t)

\* ... and after they are written two at a time
RECURSIVE FeedPairwise(_, _, _)
FeedPairwise(addr, bytes, t) ==
  IF bytes = <<>> THEN t
  ELSE FeedPairwise(addr + 2, Tail(Tail(bytes)),
                    tgui_accel_write_fb_w(addr, <<bytes[1], bytes[2]>>, t).t)

\* the effect of a feed: r the result of the 4-byte write, cur the replicas
Streamed(a, v, r, cur) ==
  /\ tgui' = r.t
  /\ lanes' = [b |-> FeedBytewise(a, v, cur.b), w |-> FeedPairwise(a, v, cur.w)]
  /\ last' = Call("stream", a, v, U32Zero, r.steps)
  /\ UNCHANGED <<todo, blit>>

\* the next four bytes of the stream reach the three devices
StreamFeed(addrs, vals) ==
  /\ FbMapped(tgui)
  /\ \E a \in addrs, v \in vals :
       Streamed(a, v, tgui_accel_write_fb_l(a, v, tgui),
                IF lanes = <<>> THEN [b |-> tgui, w |-> tgui] ELSE lanes)

InitStream == \E c \in StreamSetups : Constructed(c)
NextStream ==
  \/ DriverWrite
  \/ Ready(MaxFeeds) /\ StreamFeed(FeedAddrs, FeedWords)
SpecStream == InitStream /\ [][NextStream]_vars

\* the transfer has taken all the data it needs on each of the three devices
StreamDone ==
  /\ last.op = "stream"
  /\ tgui.write_blitter = 0 /\ lanes.b.write_blitter = 0 /\ lanes.w.write_blitter = 0

\* C1: a CPU-sourced block transfer fed the same byte stream as 1-byte,
\* as 2-byte or as 4-byte writes, from the same registers and framebuffer,
\* leaves the same final framebuffer contents, for every rectangle size and
\* every pixel-width class (compared over the destination rectangle).
StreamingEquivalence ==
  StreamDone =>
    \A x \in 0..tgui.size_x, y \in 0..tgui.size_y :
      LET p == RectPixel(tgui, tgui.dst_x, tgui.dst_y, x, y)
      IN /\ READ(lanes.b, p) = READ(tgui, p)
         /\ READ(lanes.w, p) = READ(tgui, p)


-----------------------------------------------------------------------------
(* SpecRestart: a CPU-sourced block transfer is started and fed pixel by   *)
(* pixel; command writes and a change of the source mode arrive at any     *)
(* point of it.                                                            *)

RestartSetups ==
  { [BaseSetup EXCEPT !.type = ty, !.depth = d, !.flags = TGUI_SRCCPU] :
      ty \in {TGUI_9440, TGUI_9660}, d \in {8, 16} }

RestartCommands == {TGUI_BITBLT, TGUI_SCANLINE, TGUI_BRESENHAMLINE, TGUI_SHORTVECTOR}

InitRestart == \E c \in RestartSetups : Constructed(c)
NextRestart ==
  \/ DriverWrite
  \/ Ready(MaxFeeds + 1) /\ FbWriteB(FeedAddrs, FeedBytes)
  \/ Ready(MaxFeeds + 1) /\ AccelWriteB({CmdApert}, RestartCommands)
  \/ Ready(MaxFeeds + 1) /\ AccelWriteL({ApertBase + 40}, {ToU32(TGUI_SRCDISP)})
SpecRestart == InitRestart /\ [][NextRestart]_vars

\* the engine as it is before its first command: the registers and the
\* framebuffer of t, no progress
Fresh(t) ==
  [t EXCEPT !.x = 0, !.y = 0, !.dx = 0, !.dy = 0,
            !.src = 0, !.dst = 0, !.src_old = 0, !.dst_old = 0,
            !.pat_x = 0, !.pat_y = 0,
            !.top = 0, !.left = 0, !.bottom = 0, !.right = 0,
            !.pattern_32_idx = 0, !.pitch = 0, !.write_blitter = 0]

\* what a run of the engine draws: per step the progress counters, the
\* place read and written, the operands and the result
Drawn(steps) ==
  [i \in 1..Len(steps) |->
     [x |-> steps[i].x, y |-> steps[i].y, raw |-> steps[i].raw,
      idx |-> steps[i].idx, sidx |-> steps[i].sidx, wrote |-> steps[i].wrote,
      src |-> steps[i].src, dst |-> steps[i].dst, pat |-> steps[i].pat,
      out |-> steps[i].out]]

\* the last call was a byte write to the command register
CommandWritten == last.op = "write_b" /\ last.addr = CmdApert

\* C11: a write to the command register in any state, also while a
\* CPU-sourced block transfer is only partly fed, draws exactly what the
\* same write draws on a fresh engine with the same registers and
\* framebuffer, and leaves the same framebuffer and progress counters.
CommandRestart ==
  CommandWritten =>
    LET f == tgui_accel_write(last.addr, last.val[1], Fresh(last.pre))
    IN /\ Drawn(last.steps) = Drawn(f.steps)
       /\ tgui.vram = f.t.vram
       /\ tgui.changedvram = f.t.changedvram
       /\ tgui.x = f.t.x /\ tgui.y = f.t.y
       /\ last.steps # <<>> => (last.steps[1].x = 0 /\ last.steps[1].raw = f.steps[1].raw)

\* a command written while a CPU-sourced transfer was partly fed, which drew
RestartedMidway ==
  /\ CommandWritten
  /\ last.pre.command = TGUI_BITBLT /\ SrcMode(last.pre) = TGUI_SRCCPU
  /\ last.pre.write_blitter = 1
  /\ last.pre.x > 0
  /\ last.steps # <<>>

-----------------------------------------------------------------------------
(* SpecBres: Bresenham lines of every octant, from the middle of the       *)
(* coordinate space and from its edges, with both signs of the error term. *)

BresStarts == {<<4, 5>>, <<4095, 0>>, <<0, 4095>>, <<4100, 4101>>}

BresSetups ==
  { [BaseSetup EXCEPT !.type = ty, !.crtc21 = Crtc21For(ty), !.rop = 240,
                      !.flags = o * 256, !.dst_x = d[1], !.dst_y = d[2],
                      !.size_x = e, !.src_x = U16(-2), !.src_y = 2,
                      !.size_y = n, !.cmd = TGUI_BRESENHAMLINE] :
      ty \in {TGUI_9440, TGUI_9660}, o \in 0..7, d \in BresStarts,
      e \in {1, U16(-1)}, n \in 0..MaxLen }

InitBres == \E c \in BresSetups : Constructed(c)
NextBres == DriverWrite
SpecBres == InitBres /\ [][NextBres]_vars

\* the major-axis coordinate of a step in octant o
MajorOf(o, s) == IF o \in 0..3 THEN s.dx ELSE s.dy
\* the direction of the major axis in octant o
MajorDir(o) == IF o \in {0, 1, 4, 6} THEN 1 ELSE -1

\* C12: a Bresenham line started with major-axis count size_y = n and no
\* clipping visits exactly n+1 positions, the first (dst_x, dst_y) mod 4096,
\* and from each position to the next the major-axis coordinate of the
\* octant changes by exactly 1 mod 4096, always in the same direction.
BresenhamCoverage ==
  Started(TGUI_BRESENHAMLINE) =>
    LET n == last.pre.size_y
        o == last.pre.flags[2] % 8
        s == last.steps
    IN /\ Len(s) = n + 1
       /\ Cardinality({<<s[i].dx, s[i].dy>> : i \in 1..Len(s)}) = n + 1
       /\ s[1].dx = U16(last.pre.dst_x) % 4096
       /\ s[1].dy = U16(last.pre.dst_y) % 4096
       /\ \A i \in 1..Len(s) : s[i].dx \in 0..4095 /\ s[i].dy \in 0..4095
       /\ \A i \in 1..(Len(s) - 1) :
            MajorOf(o, s[i + 1]) = (MajorOf(o, s[i]) + MajorDir(o) + 4096) % 4096

\* a y-major line of full length that crossed the edge of the coordinate space
BresWrappedLine ==
  /\ Started(TGUI_BRESENHAMLINE)
  /\ last.pre.flags[2] % 8 \in 4..7
  /\ Len(last.steps) = MaxLen + 1
  /\ \E i \in 1..(Len(last.steps) - 1) :
       {last.steps[i].dy, last.steps[i + 1].dy} = {0, 4095}

-----------------------------------------------------------------------------
(* SpecVec: short-vector commands of every direction code, on a chip       *)
(* without and a chip with clipping, from the middle and from the edges of *)
(* the coordinate space.                                                   *)

VecSetups ==
  { [BaseSetup EXCEPT !.type = ty, !.crtc21 = Crtc21For(ty), !.rop = 240,
                      !.dst_x = d[1], !.dst_y = d[2],
                      !.size_x = 0, !.size_y = SizeYCode(k, n),
                      !.cmd = TGUI_SHORTVECTOR] :
      ty \in {TGUI_9440, TGUI_9660}, k \in 0..7, d \in BresStarts,
      n \in 0..MaxLen }

InitVec == \E c \in VecSetups : Constructed(c)
NextVec == DriverWrite
SpecVec == InitVec /\ [][NextVec]_vars

\* the x and y moves of direction code k as the register description lists them
DirX(k) == IF k \in {0, 1, 7} THEN 1 ELSE IF k \in {3, 4, 5} THEN -1 ELSE 0
DirY(k) == IF k \in {1, 2, 3} THEN -1 ELSE IF k \in {5, 6, 7} THEN 1 ELSE 0

\* C13: a short-vector command makes a run of (low 12 bits of Size Y)+1
\* pixels, one pixel per step, every step in the direction of the 3-bit
\* code in the top bits of the 16-bit Size Y value (0: +x, 1: +x-y, 2: -y,
\* 3: -x-y, 4: -x, 5: -x+y, 6: +y, 7: +x+y).
ShortVectorDirection ==
  Started(TGUI_SHORTVECTOR) =>
    LET k == last.pre.sv_size_y \div 8192
        n == last.pre.sv_size_y % 4096
        s == last.steps
    IN /\ Len(s) = n + 1
       /\ s[1].dx = U16(last.pre.dst_x) % 4096
       /\ s[1].dy = U16(last.pre.dst_y) % 4096
       /\ \A i \in 1..Len(s) : s[i].wrote
       /\ \A i \in 1..(Len(s) - 1) :
            /\ s[i + 1].dx = (s[i].dx + DirX(k) + 4096) % 4096
            /\ s[i + 1].dy = (s[i].dy + DirY(k) + 4096) % 4096

\* a diagonal short vector of full length with an upward step
ShortVectorUp ==
  /\ Started(TGUI_SHORTVECTOR)
  /\ last.pre.sv_size_y \div 8192 = 3
  /\ Len(last.steps) = MaxLen + 1
  /\ last.steps[2].dy = last.steps[1].dy - 1
  /\ last.steps[2].dx = last.steps[1].dx - 1

-----------------------------------------------------------------------------
(* SpecUnk: byte accesses to accelerator addresses that no case of the     *)
(* register switches names, through the ports and through the aperture,    *)
(* after a block copy has drawn.                                           *)

\* offsets that neither tgui_accel_out nor tgui_accel_in / tgui_accel_read name
UnkOffsets == {33, 37, 54, 55, 80}
UnkAperts == {ApertBase + o : o \in UnkOffsets}
\* the pattern location register: its port takes 4-byte accesses, whose upper
\* two bytes fall on the unnamed offsets 54 and 55
PatLocPort == AccelBase + 52

UnkSetups ==
  { [BaseSetup EXCEPT !.type = ty, !.crtc21 = Crtc21For(ty), !.flags = TGUI_SRCDISP] :
      ty \in {TGUI_9440, TGUI_9660} }

\* byte read of the register aperture
AccelReadB(addrs) ==
  /\ AccelApertureMapped(tgui)
  /\ \E a \in addrs : Reader("read_b", a, <<tgui_accel_read(a, tgui), 0, 0, 0>>)

InitUnk == \E c \in UnkSetups : Constructed(c)
NextUnk ==
  \/ DriverWrite
  \/ Ready(MaxOps + 1) /\ AccelOutL({PatLocPort}, RegWords)
  \/ Ready(MaxOps + 1) /\ AccelWriteB(UnkAperts, RegBytes)
  \/ Ready(MaxOps + 1) /\ AccelInL({PatLocPort})
  \/ Ready(MaxOps + 1) /\ AccelReadB(UnkAperts)
SpecUnk == InitUnk /\ [][NextUnk]_vars

\* C14: a write to an accelerator address that is not a defined register
\* changes no accelerator state and no framebuffer byte, and a read of such
\* an address returns zero, through the ports (the upper half of a 4-byte
\* access to the pattern location) and through the aperture.
UnrecognizedAddress ==
  /\ (last.op = "write_b" /\ last.n > 0) => tgui = last.pre
  /\ last.op = "out_l" =>
       tgui = tgui_accel_out(PatLocPort + 1, last.val[2],
                tgui_accel_out(PatLocPort, last.val[1], last.pre).t).t
  /\ last.op = "in_l" => (last.ret[3] = 0 /\ last.ret[4] = 0)
  /\ last.op = "read_b" => last.ret = U32Zero

-----------------------------------------------------------------------------
(* SpecUnsup: command codes the chip does not have, written to the command *)
(* register through the port and through the aperture after a block copy.  *)

UnsupSetups ==
  { [BaseSetup EXCEPT !.type = ty, !.crtc21 = Crtc21For(ty), !.rop = 240,
                      !.flags = TGUI_SRCDISP] :
      ty \in {TGUI_9400CXI, TGUI_9440, TGUI_9660} }

\* the codes written: the fast line, the codes between and beyond the
\* enumerated ones, and a supported line for contrast
UnsupCodes == {0, 2, TGUI_SHORTVECTOR, TGUI_FASTLINE, 7, 255}

\* the codes of enum { TGUI_BITBLT ... TGUI_FASTLINE }
CommandCodes ==
  {TGUI_BITBLT, TGUI_SCANLINE, TGUI_BRESENHAMLINE, TGUI_SHORTVECTOR, TGUI_FASTLINE}

InitUnsup == \E c \in UnsupSetups : Constructed(c)
NextUnsup ==
  \/ DriverWrite
  \/ Ready(MaxOps + 1) /\ AccelWriteB({CmdApert}, UnsupCodes)
  \/ Ready(MaxOps + 1) /\ AccelOutB({CmdPort}, UnsupCodes)
SpecUnsup == InitUnsup /\ [][NextUnsup]_vars

\* the last call wrote an unsupported command code c to the command register
UnsupportedStart ==
  /\ last.op \in {"write_b", "out_b"}
  /\ last.addr \in {CmdApert, CmdPort}
  /\ \/ last.val[1] \notin CommandCodes
     \/ last.val[1] = TGUI_FASTLINE /\ last.pre.type < TGUI_9660

\* C15: starting a fast line on a chip older than the 9660, or starting an
\* undefined command code, writes no framebuffer byte and leaves every
\* register that software can read back unchanged (the command code is not
\* among them).
UnsupportedCommand ==
  UnsupportedStart =>
    /\ last.steps = <<>>
    /\ tgui.vram = last.pre.vram
    /\ tgui.changedvram = last.pre.changedvram
    /\ tgui.command = last.val[1]
    /\ \A o \in 0..255 :
         /\ AccelLoad(tgui, o, 0) = AccelLoad(last.pre, o, 0)
         /\ tgui_accel_read(ApertBase + o, tgui) = tgui_accel_read(ApertBase + o, last.pre)

\* a fast line written to a 9440 after its block copy has drawn
FastLineOn9440 ==
  /\ UnsupportedStart
  /\ last.val[1] = TGUI_FASTLINE /\ tgui.type = TGUI_9440
  /\ last.n = 1
  /\ last.hist.op = "write_b" /\ last.hist.addr = CmdApert

-----------------------------------------------------------------------------
(* SpecDepth: the display depth is changed through crtc[0x38] and through  *)
(* the RAMDAC control byte, and the accelerator's control word is written, *)
(* in any order.                                                           *)

DepthSetups ==
  { [BaseSetup EXCEPT !.type = ty, !.crtc21 = Crtc21For(ty), !.cmd = 0] :
      ty \in {TGUI_9440, TGUI_9660} }

\* RAMDAC control bytes: 16 bpp, 15 bpp; pixel bus modes: 32 bpp, not 32 bpp
RamdacVals == {48, 16}
Crtc38Vals == {9, 0}
RamdacPort == 966    \* 0x3C6

CrtcOut(idx, vals) ==
  \E v \in vals : Handler("crtc", idx, <<v, 0, 0, 0>>,
                          [t |-> crtc_write(idx, v, tgui), steps |-> <<>>])
RamdacIn ==
  Handler("in_b", RamdacPort, U32Zero, [t |-> ramdac_in(tgui), steps |-> <<>>])
RamdacOut(vals) ==
  \E v \in vals : Handler("out_b", RamdacPort, <<v, 0, 0, 0>>,
                          [t |-> ramdac_out(v, tgui), steps |-> <<>>])

InitDepth == \E c \in DepthSetups : Constructed(c)
NextDepth ==
  \/ DriverWrite
  \/ Ready(MaxOps + 5) /\ CrtcOut(56, Crtc38Vals)
  \/ Ready(MaxOps + 5) /\ RamdacIn
  \/ Ready(MaxOps + 5) /\ RamdacOut(RamdacVals)
  \/ Ready(MaxOps + 5) /\ AccelWriteB({ApertBase + 34}, {0})
SpecDepth == InitDepth /\ [][NextDepth]_vars

\* the pixel-width class of a display depth
ClassOfDepth(bpp) ==
  CASE bpp \in {8, 24} -> 0 [] bpp \in {15, 16} -> 1 [] bpp = 32 -> 3

\* C16: in every reachable state the accelerator's pixel-width class is the
\* one of the display depth (8 or 24 bpp: byte, 15 or 16 bpp: word, 32 bpp:
\* double word), whichever of the depth registers or the accelerator's
\* control word was written last.
PixelWidthClass ==
  todo = <<>> => tgui.bpp = ClassOfDepth(tgui.svga_bpp)

-----------------------------------------------------------------------------
(* SpecWrap: block transfers and lines that start in the middle and at the *)
(* far corner of the coordinate space, on a chip that does not track the   *)
(* destination coordinates in block transfers and on one that does.        *)

WrapSetups ==
  { [BaseSetup EXCEPT !.type = ty, !.crtc21 = Crtc21For(ty),
                      !.dst_x = d[1], !.dst_y = d[2],
                      !.flags = k[1], !.rop = k[2], !.cmd = k[3],
                      !.size_y = CASE k[3] = TGUI_BITBLT -> MaxH
                                   [] k[3] = TGUI_SHORTVECTOR -> SizeYCode(7, MaxLen)
                                   [] OTHER -> MaxLen] :
      ty \in {TGUI_9440, TGUI_9660}, d \in {<<4, 5>>, <<4095, 4095>>},
      k \in { <<TGUI_SRCCPU, 204, TGUI_BITBLT>>,
              <<TGUI_SRCCPU, 240, TGUI_BITBLT>>,
              <<TGUI_SRCDISP, 204, TGUI_BITBLT>>,
              <<0, 240, TGUI_BRESENHAMLINE>>,
              <<0, 240, TGUI_SHORTVECTOR>> } }

InitWrap == \E c \in WrapSetups : Constructed(c)
NextWrap ==
  \/ DriverWrite
  \/ Ready(MaxFeeds) /\ FbWriteB(FeedAddrs, FeedBytes)
SpecWrap == InitWrap /\ [][NextWrap]_vars

\* C17: in every reachable state the running destination coordinates dx and
\* dy are in 0..4095: a step past either end wraps modulo 4096, in line
\* commands and in block transfers alike.
CoordinateWrap ==
  tgui.dx \in 0..4095 /\ tgui.dy \in 0..4095

-----------------------------------------------------------------------------
(* SpecPat: the driver uploads a pattern and fills a rectangle with it, in *)
(* every pixel-width class, as a colour pattern, as a mono pattern and as  *)
(* a solid fill.                                                           *)

PatSetups ==
  { [BaseSetup EXCEPT !.type = ty, !.crtc21 = Crtc21For(ty), !.depth = d,
                      !.rop = 240, !.flags = fl, !.dst_x = 0, !.dst_y = 0,
                      !.cmd = 0] :
      ty \in {TGUI_9440, TGUI_9660}, d \in {8, 16, 32},
      fl \in {0, TGUI_PATMONO, TGUI_SOLIDFILL, TGUI_PATMONO + TGUI_SOLIDFILL} }

\* byte i of the uploaded pattern
PatFill(i) == ((i * 37) + 75) % 256

\* the upload: the rows 0..MaxH of the widest class, 4 bytes per write, then
\* the command
PatUpload ==
  [k \in 1..((MaxH + 1) * 8) |->
     <<"write_l", 128 + ((k - 1) * 4),
       <<PatFill((k - 1) * 4), PatFill(((k - 1) * 4) + 1),
         PatFill(((k - 1) * 4) + 2), PatFill(((k - 1) * 4) + 3)>> >>]
  \o << <<"write_b", 36, TGUI_BITBLT>> >>

InitPat ==
  \E c \in PatSetups :
    /\ tgui = TguiInit(c.type, c.depth, c.rowoffset)
    /\ todo = Script(c) \o PatUpload
    /\ last = InitLast(tgui)
    /\ lanes = <<>>
    /\ blit = BlitInit
NextPat == DriverWrite
SpecPat == InitPat /\ [][NextPat]_vars

\* the bytes per pixel of class bpp
ClassBytes(bpp) == IF bpp = 0 THEN 1 ELSE IF bpp = 1 THEN 2 ELSE 4

\* native pixel i of the pattern in row-major order, little-endian, of class
\* bpp: from the pattern bytes, in the 32-bit class from the auxiliary buffer
NativePixel(t, i) ==
  LET w == ClassBytes(t.bpp)
      buf == IF w = 4 THEN t.pattern_32bpp ELSE t.pattern
  IN [k \in 1..4 |-> IF k <= w THEN Get(buf, (i * w) + (k - 1), 0) ELSE 0]

\* the cell (r, c) of the pattern table as the description gives it
PatternCell(t, r, c) ==
  IF And16(Lo16(t.flags), TGUI_SOLIDFILL) # 0 THEN t.fg_col
  ELSE IF And16(Lo16(t.flags), TGUI_PATMONO) # 0
    THEN (IF (PatByte(t, r) \div (2 ^ (7 - c))) % 2 = 1 THEN t.fg_col ELSE t.bg_col)
  ELSE NativePixel(t, (r * 8) + c)

\* a word cut to the pixel width of class bpp
Truncated(bpp, w) ==
  [k \in 1..4 |-> IF k <= ClassBytes(bpp) THEN w[k] ELSE 0]

\* C18: at command execution the 64-entry pattern table holds in cell (row r,
\* column c) the foreground colour when the solid-fill flag is set (also with
\* the mono-pattern flag set); else, with the mono-pattern flag set, the
\* foreground colour if bit 7-c of pattern byte r is 1 and the background
\* colour if it is 0; else the native pixel in row-major order at 8-, 16- or
\* 32-bit granularity (the 32-bit class read from the auxiliary buffer); the
\* value used for a pixel is truncated to the pixel width.
PatternCache ==
  Started(TGUI_BITBLT) =>
    /\ \A r \in 0..7, c \in 0..7 :
         pattern_data(tgui)[(r * 8) + c + 1] = PatternCell(last.pre, r, c)
    /\ Len(last.steps) = (MaxW + 1) * (MaxH + 1)
    /\ \A i \in 1..Len(last.steps) :
         last.steps[i].pat =
           Truncated(tgui.bpp, PatternCell(last.pre, last.steps[i].y, last.steps[i].x))

\* a mono pattern that put both colours into the rectangle
PatternMonoDrawn ==
  /\ Started(TGUI_BITBLT)
  /\ FlagSet(tgui, TGUI_PATMONO) /\ ~FlagSet(tgui, TGUI_SOLIDFILL)
  /\ tgui.bpp = 1
  /\ \E i, j \in 1..Len(last.steps) :
       /\ last.steps[i].pat = Truncated(1, tgui.fg_col) /\ last.steps[i].wrote
       /\ last.steps[j].pat = Truncated(1, tgui.bg_col) /\ last.steps[j].wrote

-----------------------------------------------------------------------------
(* SpecWorker: one producer makes up to MaxReq calls of                      *)
(* video_blit_memtoscreen_monitor, the worker runs, and the monitor may be *)
(* closed at any point. SpecWorkerLive: the same without the close, the      *)
(* worker, the producer and the blit function being scheduled fairly.      *)

MaxReq == 2

\* the rectangles requested: an empty one and two that are accepted
BlitRects == {<<0, 0, 0, 1>>, <<0, 0, 1, 1>>, <<1, 0, 2, 1>>}

BlitQuiet == UNCHANGED <<tgui, last, lanes, todo>>

Request ==
  /\ blit.target_buffer = 1 /\ blit.producer = "idle" /\ blit.calls < MaxReq
  /\ \E r \in BlitRects : blit' = blit_request(r, blit)
  /\ BlitQuiet
ProducerStep ==
  /\ ProducerCanStep(blit)
  /\ blit' = video_blit_memtoscreen_monitor(blit)
  /\ BlitQuiet
WorkerStep ==
  /\ WorkerCanStep(blit)
  /\ blit' = blit_thread(blit)
  /\ BlitQuiet
BlitReturn ==
  /\ blit.worker = "inblit"
  /\ blit' = blit_return(blit)
  /\ BlitQuiet
CloseStep ==
  /\ CloserCanStep(blit)
  /\ blit' = video_monitor_close(blit)
  /\ BlitQuiet

InitWorker ==
  /\ tgui = TguiInit(TGUI_9440, 8, 2)
  /\ todo = <<>>
  /\ last = InitLast(tgui)
  /\ lanes = <<>>
  /\ blit = BlitInit

NextWorker ==
  \/ Request
  \/ ProducerStep
  \/ WorkerStep
  \/ BlitReturn
  \/ CloseStep
SpecWorker == InitWorker /\ [][NextWorker]_vars

\* the threads are scheduled by the host: a thread that can run does run,
\* and the blit function returns; the producer need not make another call
NextWorkerLive ==
  \/ Request
  \/ ProducerStep
  \/ WorkerStep
  \/ BlitReturn
SpecWorkerLive ==
  /\ InitWorker /\ [][NextWorkerLive]_vars
  /\ WF_vars(ProducerStep) /\ WF_vars(WorkerStep) /\ WF_vars(BlitReturn)

\* the producer is inside video_wait_for_blit_monitor's loop
ProducerWaits == blit.producer \in {"test", "wait"}

\* the producer waits for completion while the worker waits for a wake that
\* is not set
HandshakeStuck ==
  /\ ProducerWaits /\ blit.busy = 1
  /\ blit.worker \in {"test", "wait"} /\ blit.wake_blit_thread = 0

\* C19: with one producer and a blit function that returns, every accepted
\* request (w > 0 and h > 0) is eventually followed by the worker clearing
\* busy and setting the completion event, a producer blocked in a later
\* request eventually proceeds, and the producer never waits for completion
\* while the worker waits for a wake.
WorkerCompletion ==
  /\ \A n \in 1..MaxReq : (blit.accepted >= n) ~> (blit.completed >= n)
  /\ ProducerWaits ~> (blit.producer = "mark")
  /\ []~HandshakeStuck

\* all the requests were accepted and completed, and the producer had to
\* wait for the worker in one of them
WorkerCaughtUp ==
  /\ blit.accepted = MaxReq /\ blit.completed = MaxReq
  /\ blit.blocked
  /\ blit.producer = "idle" /\ blit.busy = 0

\* C20: the worker invokes the blit function only after a producer has
\* recorded a rectangle and set busy: the invocations never outnumber the
\* accepted requests and every invocation happens with busy = 1, in every
\* interleaving, monitor shutdown included.
NoCopyWithoutRequest ==
  /\ blit.invoked <= blit.accepted
  /\ blit.copied # <<>> => blit.copied[5] = 1

-----------------------------------------------------------------------------
(* The request record between the wake of a request and the end of its     *)
(* copy, under SpecWorkerLive (one producer, no shutdown).                 *)

\* the rectangle in blit_data_t
BlitRect == <<blit.x, blit.y, blit.w, blit.h>>

\* a request has been handed to the worker and its copy has not ended
CopyPending ==
  blit.wake_blit_thread = 1 \/ blit.worker \in {"reset", "call", "inblit"}

\* the number of the request whose copy is pending
PendingRequest ==
  IF blit.worker = "inblit" THEN blit.invoked ELSE blit.invoked + 1

\* C21: with one producer, a request issued while the worker is copying
\* waits until the worker has cleared busy: the recorded rectangle is not
\* modified between the wake of a request and the end of its copy, and each
\* accepted request is copied once, with its own rectangle.
RequestRecordStable ==
  /\ CopyPending =>
       /\ PendingRequest <= Len(blit.asked)
       /\ BlitRect = blit.asked[PendingRequest]
       /\ blit.busy = 1
  /\ Len(blit.copies) <= Len(blit.asked)
  /\ blit.copies = SubSeq(blit.asked, 1, Len(blit.copies))
  /\ (blit.producer = "idle" /\ blit.busy = 0) => blit.copies = blit.asked

\* a second request, with another rectangle, waits while the first is copied
SecondRequestWaits ==
  /\ blit.worker = "inblit" /\ blit.producer = "wait"
  /\ Len(blit.asked) = 2 /\ blit.asked[2] # blit.asked[1]

-----------------------------------------------------------------------------
(* Change tracking of the pixel writes of a drawing command, under Spec.   *)

PageBytes == 4096

\* the byte addresses a pixel step writes
StepBytes(s) == { (s.idx * s.bytes) + k : k \in 0..(s.bytes - 1) }

\* the call was made to the accelerator, not to the extended handlers
DrawingCall == last.op \notin {"none", "ext_read", "ext_write", "ext_writew"}

\* C22: every pixel write made by a drawing command, at every pixel-width
\* class, marks as changed the 4 KiB page of video memory that holds the
\* written bytes, in the same step as the write.
ChangeTracking ==
  DrawingCall =>
    /\ \A i \in 1..Len(last.steps) :
         last.steps[i].wrote =>
           \A a \in StepBytes(last.steps[i]) :
             /\ (a \div PageBytes) \in last.steps[i].chg
             /\ (a \div PageBytes) \in tgui.changedvram
    /\ \A a \in DOMAIN tgui.vram :
         VramByte(tgui, a) # VramByte(last.pre, a) =>
           (a \div PageBytes) \in tgui.changedvram

\* pixels of the 32-bit class written past the first pages of video memory
ChangedFarPage ==
  /\ DrawingCall /\ tgui.bpp = 3 /\ Len(last.steps) > 1
  /\ \A i \in 1..Len(last.steps) :
       /\ last.steps[i].wrote
       /\ last.steps[i].idx \div 1024 > 4
       /\ last.steps[i].chg = {last.steps[i].idx \div 1024}

-----------------------------------------------------------------------------
(* SpecScan: scanline commands, started again and again, in the four       *)
(* directions and with several heights in size_y.                          *)

ScanSetups ==
  { [BaseSetup EXCEPT !.type = ty, !.crtc21 = Crtc21For(ty), !.depth = d,
                      !.flags = TGUI_SRCDISP + dir, !.size_y = h,
                      !.cmd = TGUI_SCANLINE] :
      ty \in {TGUI_9440, TGUI_9660}, d \in Depths,
      dir \in {0, 256, 512, 768}, h \in {0, MaxH, 4095} }

InitScan == \E c \in ScanSetups : Constructed(c)
NextScan ==
  \/ DriverWrite
  \/ Ready(MaxOps) /\ AccelWriteB({CmdApert}, {TGUI_SCANLINE})
  \/ Ready(MaxOps) /\ AccelWriteB({ApertBase + 58}, {5, 6})
  \/ Ready(MaxOps) /\ AccelWriteB({ApertBase + 66}, {0, 1})
SpecScan == InitScan /\ [][NextScan]_vars

\* the last call started a scanline command
ScanlineStarted ==
  CommandWritten /\ tgui.command = TGUI_SCANLINE /\ last.pre.size_x >= 0

\* the first source and destination pixel of the row, from the registers
ScanSrc == last.pre.src_x + (last.pre.src_y * tgui.pitch)
ScanDst == last.pre.dst_x + (last.pre.dst_y * tgui.pitch)

-----------------------------------------------------------------------------
(* SpecFill: solid-fill block transfers with rop 0xF0, run twice.          *)

FillSetups ==
  { [BaseSetup EXCEPT !.type = ty, !.crtc21 = Crtc21For(ty), !.depth = d,
                      !.flags = TGUI_SOLIDFILL + f, !.rop = 240] :
      ty \in ChipTypes \ {TGUI_9400CXI}, d \in Depths,
      f \in {TGUI_SRCCPU, TGUI_SRCPAT, TGUI_SRCDISP, TGUI_SRCPAT + 256 + 512} }

InitFill == \E c \in FillSetups : Constructed(c)
NextFill ==
  \/ DriverWrite
  \/ Ready(MaxOps + 1) /\ AccelWriteB({CmdApert}, {TGUI_BITBLT})
  \/ Ready(MaxOps + 1) /\ AccelWriteB({ApertBase + 44}, {7})
  \/ Ready(MaxOps + 1) /\ AccelWriteB({ApertBase + 56}, {6})
SpecFill == InitFill /\ [][NextFill]_vars

\* the last two calls wrote the same command, with no register write between
RanTwice ==
  /\ CommandWritten
  /\ last.hist.op = "write_b" /\ last.hist.addr = CmdApert
  /\ last.hist.val = last.val

\* the command is a solid-fill block transfer with rop 0xF0
SolidFill(t) ==
  t.command = TGUI_BITBLT /\ FlagSet(t, TGUI_SOLIDFILL) /\ t.rop = 240

\* C24: a solid-fill block transfer with rop 0xF0 executed twice in a row,
\* the registers unchanged, leaves the framebuffer byte for byte as one
\* execution leaves it.
SolidFillIdempotent ==
  (RanTwice /\ SolidFill(tgui)) =>
    /\ tgui.vram = last.pre.vram
    /\ tgui.changedvram = last.pre.changedvram

\* the second of two solid fills, each of which wrote the whole rectangle
SolidFillTwice ==
  /\ RanTwice /\ SolidFill(tgui)
  /\ Len(last.steps) = (MaxW + 1) * (MaxH + 1)
  /\ \A i \in 1..Len(last.steps) : last.steps[i].wrote
  /\ \E a \in DOMAIN tgui.vram : tgui.vram[a] # VramInit(a)

-----------------------------------------------------------------------------
(* SpecClipAll: every primitive and every source mode on the 9660 and the  *)
(* 9680, drawn across the edge of the clip rectangle.                      *)

ClipAllSetups ==
  { [BaseSetup EXCEPT !.type = ty, !.depth = d,
                      !.flags = k[1], !.rop = k[2], !.cmd = k[3],
                      !.size_y = IF k[3] \in {TGUI_BITBLT, TGUI_SCANLINE}
                                   THEN MaxH ELSE MaxLen,
                      !.clip = PartClip] :
      ty \in {TGUI_9660, TGUI_9680}, d \in {8, 16},
      k \in { <<TGUI_SRCCPU, 204, TGUI_BITBLT>>,
              <<TGUI_SRCPAT + TGUI_SOLIDFILL, 240, TGUI_BITBLT>>,
              <<TGUI_SRCDISP, 204, TGUI_BITBLT>>,
              <<TGUI_SRCDISP, 204, TGUI_SCANLINE>>,
              <<0, 240, TGUI_BRESENHAMLINE>>,
              <<0, 240, TGUI_SHORTVECTOR>>,
              <<0, 240, TGUI_FASTLINE>> } }

InitClipAll == \E c \in ClipAllSetups : Constructed(c)
NextClipAll ==
  \/ DriverWrite
  \/ Ready(MaxFeeds) /\ FbWriteL(FeedAddrs, FeedWords)
  \/ Ready(MaxFeeds) /\ AccelWriteB({CmdApert}, {TGUI_BITBLT, TGUI_SCANLINE})
SpecClipAll == InitClipAll /\ [][NextClipAll]_vars

\* the pixel at index idx of the framebuffer lies in the clip rectangle of
\* the registers, rows being pitch pixels long
PixelInClip(idx) ==
  LET b == ClipSeed(last.pre)
      px == idx % tgui.pitch
      py == idx \div tgui.pitch
  IN px >= b.left /\ px <= b.right /\ py >= b.top /\ py <= b.bottom

\* C25: on the 9660 and the 9680, after a drawing command of any primitive
\* and any source mode, no framebuffer pixel whose coordinates lie outside
\* the clip rectangle has been modified.
ClipEnforced ==
  (tgui.type >= TGUI_9660 /\ DrawingCall) =>
    \A i \in 1..Len(last.steps) :
      last.steps[i].wrote => PixelInClip(last.steps[i].idx)

-----------------------------------------------------------------------------
(* SpecFixed: a CPU-sourced solid-fill block transfer whose foreground     *)
(* colour is changed between the command start and a data feed.            *)

FixedSetups ==
  { [BaseSetup EXCEPT !.type = ty, !.depth = d,
                      !.flags = TGUI_SRCCPU + TGUI_SOLIDFILL, !.rop = 252] :
      ty \in {TGUI_9440, TGUI_9660}, d \in Depths }

\* the register of the foreground colour
FgApert == ApertBase + 44

InitFixed == \E c \in FixedSetups : Constructed(c)
NextFixed ==
  \/ DriverWrite
  \/ Ready(MaxFeeds) /\ AccelWriteB({FgApert}, {7, 226})
  \/ Ready(MaxFeeds) /\ FbWriteB(FeedAddrs, FeedBytes)
  \/ Ready(MaxFeeds) /\ FbWriteL(FeedAddrs, FeedWords)
SpecFixed == InitFixed /\ [][NextFixed]_vars

\* the first data feed of the transfer, made right after a write to the
\* foreground colour that followed the command start
FedAfterColour ==
  /\ last.op \in {"fb_b", "fb_l"} /\ last.n = 2 /\ last.steps # <<>>
  /\ last.hist.op = "write_b" /\ last.hist.addr = FgApert

\* the device as the feed found it, with the colour the command started with
AtStart == [last.pre EXCEPT !.fg_col = BaseSetup.fg]

\* C26: the pattern table a command uses is computed when the command
\* starts; a change of the pattern bytes, the colour registers or the
\* pattern flags after the start does not change the pattern values of the
\* pixels a later data feed draws.
PatternFixedAtStart ==
  FedAfterColour =>
    last.steps[1].pat = PatDat(AtStart, pattern_data(AtStart))

-----------------------------------------------------------------------------
(* The memory-mapped I/O window: tgui_mmio_write / tgui_mmio_read.         *)

\* tgui_recalcmapping: the window exists on the 9440 and later (its base
\* and crtc[0x39] bit 0 are taken as set)
MmioMapped(t) == t.type >= TGUI_9440

\* the branch of the window handlers: the accelerator ports with
\* crtc[0x36] & 3 = 0, the register aperture handler otherwise
MmioBranch(addr, t) ==
  LET a == addr % 65536
  IN IF (t.crtc36 % 4 = 0) /\ a >= AccelBase /\ a <= AccelBase + 255 THEN "port"
     ELSE IF (t.crtc36 % 4 > 0) /\ a <= 255 THEN "aperture"
     ELSE "vga"

\* tgui_mmio_write; of tgui_out only the RAMDAC control port is followed
tgui_mmio_write(addr, val, t) ==
  LET a == addr % 65536
  IN CASE MmioBranch(addr, t) = "port" -> tgui_accel_out(a, val, t)
       [] MmioBranch(addr, t) = "aperture" -> tgui_accel_write(a, val, t)
       [] OTHER -> [t |-> IF a = RamdacPort THEN ramdac_out(val, t) ELSE t, steps |-> <<>>]

\* tgui_mmio_read; an address tgui_in and the VGA core do not decode reads
\* as 0xff
tgui_mmio_read(addr, t) ==
  LET a == addr % 65536
  IN CASE MmioBranch(addr, t) = "port" -> tgui_accel_in(a, t)
       [] MmioBranch(addr, t) = "aperture" -> tgui_accel_read(a, t)
       [] OTHER -> 255

-----------------------------------------------------------------------------
(* SpecMmio: byte accesses to the memory-mapped I/O window under the four  *)
(* values of crtc[0x36] & 3.                                               *)

MmioSetups ==
  { [BaseSetup EXCEPT !.type = ty, !.depth = d, !.cmd = 0] :
      ty \in {TGUI_9440, TGUI_9660}, d \in {8, 16} }

\* rop, foreground colour, destination x, and an offset no register has
MmioOffsets == {39, 44, 56, 33}
MmioAddrs == MmioOffsets \cup {AccelBase + 39, RamdacPort}

MmioWriteB(addrs, vals) ==
  /\ MmioMapped(tgui)
  /\ \E a \in addrs, v \in vals :
       Handler("mmio_b", a, <<v, 0, 0, 0>>, tgui_mmio_write(a, v, tgui))
MmioReadB(addrs) ==
  /\ MmioMapped(tgui)
  /\ \E a \in addrs :
       Reader("mmio_rb", a, <<tgui_mmio_read(a, tgui), 0, 0, 0>>)

InitMmio == \E c \in MmioSetups : Constructed(c)
NextMmio ==
  \/ DriverWrite
  \/ Ready(MaxOps + 1) /\ CrtcOut(54, {0, 1, 3})
  \/ Ready(MaxOps + 1) /\ MmioWriteB(MmioAddrs, {90})
  \/ Ready(MaxOps + 1) /\ MmioReadB(MmioAddrs \ {RamdacPort})
SpecMmio == InitMmio /\ [][NextMmio]_vars

\* the last call went to a register offset of the window while the
\* accelerator aperture mode was enabled
MmioRegisterAccess(op) ==
  /\ last.op = op
  /\ last.pre.crtc36 % 4 \in {1, 2, 3}
  /\ last.addr \in 0..255

\* C27: with the accelerator aperture mode enabled (crtc[0x36] & 3 equal to
\* 1, 2 or 3) a byte write of v to offset o (0..0xFF) of the memory-mapped
\* I/O window leaves the accelerator as a port write of v to 0x2100+o does,
\* and a read of offset o returns what the port read at 0x2100+o returns.
MmioRegisterWindow ==
  /\ MmioRegisterAccess("mmio_b") =>
       tgui = tgui_accel_out(AccelBase + last.addr, last.val[1], last.pre).t
  /\ MmioRegisterAccess("mmio_rb") =>
       last.ret[1] = tgui_accel_in(AccelBase + last.addr, last.pre)

-----------------------------------------------------------------------------
(* SpecData: a CPU-sourced colour block transfer with rop 0xCC and the     *)
(* clip rectangle open, fed with writes of 1, 2 and 4 bytes.               *)

DataSetups ==
  { [BaseSetup EXCEPT !.type = ty, !.depth = d, !.flags = TGUI_SRCCPU, !.rop = 204] :
      ty \in {TGUI_9440, TGUI_9660}, d \in Depths }

DataWords == {<<17, 34, 51, 68>>, <<90, 17, 17, 0>>}

InitData == \E c \in DataSetups : Constructed(c)
NextData ==
  \/ DriverWrite
  \/ Ready(MaxFeeds) /\ FbWriteB(FeedAddrs, FeedBytes)
  \/ Ready(MaxFeeds) /\ FbWriteW(FeedAddrs, FeedPairs)
  \/ Ready(MaxFeeds) /\ FbWriteL(FeedAddrs, DataWords)
SpecData == InitData /\ [][NextData]_vars

\* the bytes a write carries
FedBytes == IF last.op = "fb_b" THEN 1 ELSE IF last.op = "fb_w" THEN 2 ELSE 4

\* the last call fed whole pixels to the transfer
FedPixels ==
  /\ last.op \in {"fb_b", "fb_w", "fb_l"}
  /\ last.pre.write_blitter = 1
  /\ last.steps # <<>>
  /\ FedBytes >= PixBytes(last.pre)

\* the little-endian value of the source bytes written for pixel i of a feed
SourcePixel(i) ==
  LET n == PixBytes(last.pre)
  IN [k \in 1..4 |-> IF k <= n THEN last.val[((i - 1) * n) + k] ELSE 0]

\* C28: in a CPU-sourced colour block transfer with rop 0xCC and no
\* clipping each destination pixel receives the little-endian value of the
\* consecutive source bytes written for it: 1 byte in the 8-bit class, 2
\* bytes in the 16-bit class, all 4 bytes of a 4-byte write in the 32-bit
\* class.
CpuColourData ==
  FedPixels =>
    \A i \in 1..Len(last.steps) :
      /\ last.steps[i].wrote
      /\ last.steps[i].out = SourcePixel(i)
      /\ READ(tgui, last.steps[i].raw) = SourcePixel(i)

-----------------------------------------------------------------------------
(* SpecMono: a mono-expanded CPU-sourced block transfer over rows of ten   *)
(* pixels, with and without transparency, fed with 1, 2 and 4 bytes.       *)

MonoRow == 9   \* size_x: a row takes more than the bits of one byte

MonoSetups ==
  { [BaseSetup EXCEPT !.type = ty, !.depth = d, !.rowoffset = 4,
                      !.flags = TGUI_SRCMONO + f, !.rop = 204,
                      !.size_x = MonoRow] :
      ty \in {TGUI_9440, TGUI_9660}, d \in Depths,
      f \in {0, TGUI_TRANSENA} }

InitMono == \E c \in MonoSetups : Constructed(c)
NextMono ==
  \/ DriverWrite
  \/ Ready(MaxFeeds) /\ FbWriteB(FeedAddrs, {165})
  \/ Ready(MaxFeeds) /\ FbWriteW(FeedAddrs, {<<240, 15>>, <<90, 64>>})
  \/ Ready(MaxFeeds) /\ FbWriteL(FeedAddrs, {<<128, 1, 255, 0>>})
SpecMono == InitMono /\ [][NextMono]_vars

\* the last call fed bits to a mono-expanded transfer
FedMono ==
  /\ last.op \in {"fb_b", "fb_w", "fb_l"}
  /\ last.pre.write_blitter = 1
  /\ last.pre.command = TGUI_BITBLT /\ SrcMode(last.pre) = TGUI_SRCMONO

\* source bit i of the write: the lowest-addressed byte first, and in a
\* byte the most significant bit first
SourceBit(i) == Bit(last.val[((i - 1) \div 8) + 1], 7 - ((i - 1) % 8))

\* the colour a source bit stands for
BitColour(i) ==
  MaskBpp(last.pre, IF SourceBit(i) = 1 THEN last.pre.fg_col ELSE last.pre.bg_col)

\* the pixels left in the row the feed found
RowLeft == (last.pre.size_x + 1) - last.pre.x

-----------------------------------------------------------------------------
(* SpecExtent: display-sourced block transfers with positive, zero and     *)
(* negative widths, started by the byte and by the 4-byte command write.   *)

\* values written to Size X: 0x3fff and 0x2000 are sign-extended to -1 and
\* to -8192
ExtentWidths == {0, MaxW, 16383, 8192}

ExtentSetups ==
  { [BaseSetup EXCEPT !.type = ty, !.depth = d, !.flags = TGUI_SRCDISP + dir,
                      !.rop = 204, !.size_x = w, !.size_y = h] :
      ty \in {TGUI_9440, TGUI_9660}, d \in Depths, dir \in {0, 256, 512},
      w \in ExtentWidths, h \in {0, MaxH} }

InitExtent == \E c \in ExtentSetups : Constructed(c)
NextExtent ==
  \/ DriverWrite
  \/ Ready(MaxOps + 1) /\ AccelWriteB({ApertBase + 65}, {32, 63})
  \/ Ready(MaxOps + 1) /\ AccelWriteB({CmdApert}, {TGUI_BITBLT})
  \/ Ready(MaxOps + 1) /\ AccelWriteL({CmdApert}, {<<TGUI_BITBLT, 0, 0, 204>>})
SpecExtent == InitExtent /\ [][NextExtent]_vars

\* the last call started a display-sourced block transfer
DisplayBltStarted ==
  /\ last.op \in {"write_b", "write_l"} /\ last.addr = CmdApert
  /\ tgui.command = TGUI_BITBLT /\ SrcMode(tgui) = TGUI_SRCDISP

\* the first destination pixel, from the registers
ExtentDst == last.pre.dst_x + (last.pre.dst_y * tgui.pitch)

\* C30: a display-sourced block transfer runs to completion inside its
\* start invocation for every register value, a negative size_x and
\* size_y = 0 included; for size_x >= 0 it processes exactly
\* (size_x + 1) * (size_y + 1) pixel positions, row j lying j pitches from
\* the start row in the vertical direction, and it stops when the row
\* counter exceeds size_y.
BlockTransferExtent ==
  DisplayBltStarted =>
    /\ tgui.y = tgui.size_y + 1 /\ tgui.x = 0
    /\ last.steps # <<>>
    /\ last.steps[Len(last.steps)].y = tgui.size_y
    /\ tgui.size_x >= 0 =>
         /\ Len(last.steps) = (tgui.size_x + 1) * (tgui.size_y + 1)
         /\ \A i \in 1..Len(last.steps) :
              /\ last.steps[i].x = (i - 1) % (tgui.size_x + 1)
              /\ last.steps[i].y = (i - 1) \div (tgui.size_x + 1)
              /\ last.steps[i].raw =
                   ExtentDst + (last.steps[i].y * ydir(tgui) * tgui.pitch)
                             + (last.steps[i].x * xdir(tgui))

\* an upward transfer of the full rectangle
ExtentFullUp ==
  /\ DisplayBltStarted /\ ydir(tgui) = -1
  /\ tgui.size_x = MaxW /\ tgui.size_y = MaxH
  /\ Len(last.steps) = (MaxW + 1) * (MaxH + 1)
  /\ last.steps[Len(last.steps)].raw = (ExtentDst - (MaxH * tgui.pitch)) + MaxW

-----------------------------------------------------------------------------
(* SpecRemap: dword_remap applied to every address of the 256 KiB window   *)
(* it permutes, and to addresses above the window.                         *)

\* the addresses below bit 18
RemapWindow == 262144

\* addresses above the window, up to bit 30
RemapHigh == { a + (h * RemapWindow) : a \in {0, 1, 4, 65536, 262143}, h \in {1, 5, 8191} }

RemapInputs == (0..(RemapWindow - 1)) \cup RemapHigh

\* the value of four bytes, lowest first
FromU32(w) == w[1] + (256 * w[2]) + (65536 * w[3]) + (16777216 * w[4])

Remap(addrs) ==
  \E a \in addrs : Reader("remap", a, ToU32(dword_remap(a)))

InitRemap ==
  /\ tgui = TguiInit(TGUI_9400CXI, 8, 2)
  /\ todo = <<>>
  /\ last = InitLast(tgui)
  /\ lanes = <<>>
  /\ blit = BlitInit
NextRemap == Ready(1) /\ Remap(RemapInputs)
SpecRemap == InitRemap /\ [][NextRemap]_vars

Remapped == last.op = "remap"
RemapIn  == last.addr
RemapOut == FromU32(last.ret)

\* bits 2..3 of the transform of a
FoldedBits(a) == (dword_remap(a) \div 4) % 4

\* a with bit k inverted
FlipBit(a, k) == IF Bit(a, k) = 1 THEN a - (2 ^ k) ELSE a + (2 ^ k)

\* C31: the chain-4 address transform moves address bits 2..15 to bits
\* 4..17, folds bits 16..17 back into bits 2..3, and leaves bits 0..1 and
\* all bits above 17 unchanged.
DwordRemapLayout ==
  Remapped =>
    /\ \A k \in 2..15 : Bit(RemapOut, k + 2) = Bit(RemapIn, k)
    /\ \A k \in 16..17 : Bit(RemapOut, k - 14) = Bit(RemapIn, k)
    /\ \A k \in {0, 1} \cup (18..30) : Bit(RemapOut, k) = Bit(RemapIn, k)

\* C31 as stated: every one of the bits 14..17 of the address is folded
\* into bits 2..3 of the result.
DwordRemapAsStated ==
  Remapped =>
    \A k \in 14..17 : FoldedBits(FlipBit(RemapIn, k)) # FoldedBits(RemapIn)

\* an address with bits 16 and 17 set and bits 14 and 15 clear
RemapFolded ==
  /\ Remapped
  /\ Bit(RemapIn, 16) = 1 /\ Bit(RemapIn, 17) = 1
  /\ Bit(RemapIn, 14) = 0 /\ Bit(RemapIn, 15) = 0
  /\ (RemapOut \div 4) % 4 = 3

-----------------------------------------------------------------------------
(* The write mask of the TGUI9400CXi mono-to-colour expansion, under Spec. *)

\* the last call was a mono-to-colour expansion write that reached video
\* memory
MonoExpansionWrite ==
  /\ last.op \in {"ext_write", "ext_writew"}
  /\ And16(GdcReg(last.pre, 16), EXT_CTRL_LATCH_COPY) = 0
  /\ last.addr % (decode_mask(last.pre) + 1) < svga_vram_max

\* the bits of the data a write expands, and its write mask, most
\* significant bit first
ExpandedBits == IF last.op = "ext_write" THEN 8 ELSE 16
WriteMaskBits ==
  IF last.op = "ext_write" THEN MsbBits(GdcReg(last.pre, 23), 8)
  ELSE MsbBits(GdcReg(last.pre, 24) + (256 * GdcReg(last.pre, 23)), 16)

\* the video-memory byte bit i of the data expands to
ExpandedByte(i) ==
  LET a1 == (last.addr % (decode_mask(last.pre) + 1)) % (svga_vram_mask + 1)
      a2 == dword_remap((a1 \div ExpandedBits) * ExpandedBits)
  IN (a2 + ((i \div 4) * 16) + (i % 4)) % (svga_vram_mask + 1)

\* C32: in the mono-to-colour expansion writes of the 9400CXi, with
\* transparency enabled or disabled, a video-memory byte is written only if
\* the corresponding bit of the write mask is set; a byte whose mask bit is
\* clear keeps its old value.
ExtWriteMask ==
  MonoExpansionWrite =>
    \A i \in 0..(ExpandedBits - 1) :
      WriteMaskBits[i + 1] = 0 =>
        /\ VramByte(tgui, ExpandedByte(i)) = VramByte(last.pre, ExpandedByte(i))
        /\ \A k \in 1..Len(last.steps) : last.steps[k].raw # ExpandedByte(i)

-----------------------------------------------------------------------------
(* SpecSrc: every raster-op code written by the three writes that take     *)
(* one.                                                                    *)

RopCodes == 0..255
RopPort == AccelBase + 39    \* 0x2127

InitSrc ==
  /\ tgui = TguiInit(TGUI_9440, 8, 2)
  /\ todo = << <<"crtc", 54, 2>> >>
  /\ last = InitLast(tgui)
  /\ lanes = <<>>
  /\ blit = BlitInit
NextSrc ==
  \/ DriverWrite
  \/ Ready(1) /\ AccelOutB({RopPort}, RopCodes)
  \/ Ready(1) /\ AccelOutL({CmdPort}, {<<0, 0, 0, r>> : r \in RopCodes})
  \/ Ready(1) /\ AccelWriteL({CmdApert}, {<<0, 0, 0, r>> : r \in RopCodes})
SpecSrc == InitSrc /\ [][NextSrc]_vars

\* the last call wrote a raster-op code
RopWritten ==
  \/ last.op = "out_b" /\ last.addr = RopPort
  \/ last.op = "out_l" /\ last.addr = CmdPort
  \/ last.op = "write_l" /\ last.addr = CmdApert

\* the code the call wrote
RopCode == IF last.op = "out_b" THEN last.val[1] ELSE last.val[4]

\* the mix of t depends on the source operand: for some bits D, P the result
\* with S = 0 differs from the result with S = 1
RopUsesSource(t) ==
  MIX(t, <<170, 170, 170, 170>>, <<240, 240, 240, 240>>, U32Zero)
    # MIX(t, <<170, 170, 170, 170>>, <<240, 240, 240, 240>>, U32Ones)

\* C33: after any write of a raster-op code (the 1-byte ROP write, the
\* 4-byte command and ROP write to the port or to the aperture) the
\* use-source flag is nonzero exactly when the ROP result depends on the
\* source operand: when the mix with S = 0 differs from the mix with
\* S = 1 for some bits D, P.
SourceUseFlag ==
  RopWritten =>
    /\ tgui.rop = RopCode
    /\ (tgui.use_src # 0) <=> RopUsesSource(tgui)

\* D xor S written by the 4-byte aperture write, and found to use the source
SourceUsed ==
  /\ last.op = "write_l" /\ last.addr = CmdApert
  /\ tgui.rop = 102 /\ tgui.use_src # 0

-----------------------------------------------------------------------------
(* The interception of framebuffer writes, over SpecRestart.               *)

\* the command of t is a CPU-sourced block transfer short of its extent
CpuTransferOpen(t) ==
  /\ t.command = TGUI_BITBLT
  /\ SrcMode(t) \in {TGUI_SRCCPU, TGUI_SRCMONO + TGUI_SRCCPU}
  /\ t.y <= t.size_y

\* C34: the intercept flag is set only while the current command is a
\* CPU-sourced block transfer that has not yet reached its extent; in every
\* other state, in particular after a different command has been started, a
\* write to the linear framebuffer aperture is stored in video memory and is
\* not consumed as command data.
FbWriteInterception ==
  /\ tgui.write_blitter # 0 => CpuTransferOpen(tgui)
  /\ (last.op = "fb_b" /\ ~CpuTransferOpen(last.pre)) =>
       /\ last.steps = <<>>
       /\ tgui.vram = svga_write_linear(last.addr, <<last.val[1]>>, last.pre).vram

-----------------------------------------------------------------------------
(* The data of a clipped CPU-sourced transfer, over SpecClipAll.           *)

\* the engine of t as it is when the transfer was started with the clip
\* rectangle opened to the whole plane
OpenClip(t) ==
  ClipSeed([t EXCEPT !.src_x_clip = 0, !.src_y_clip = 0,
                     !.dst_x_clip = 4095, !.dst_y_clip = 4095])

\* the last call was the first feed of a CPU-sourced colour block transfer
FirstColourFeed ==
  /\ last.op = "fb_l"
  /\ last.pre.write_blitter = 1
  /\ last.pre.command = TGUI_BITBLT /\ SrcMode(last.pre) = TGUI_SRCCPU
  /\ last.pre.x = 0 /\ last.pre.y = 0

\* C35: on the 9660 and the 9680, in a CPU-sourced colour block transfer,
\* clipping only suppresses writes: every destination pixel inside the clip
\* rectangle receives the same value it receives when the same data is fed
\* with a clip rectangle that covers the whole destination.
ClipKeepsCpuData ==
  (tgui.type >= TGUI_9660 /\ FirstColourFeed) =>
    LET open == tgui_accel_write_fb_l(last.addr, last.val, OpenClip(last.pre)).steps
    IN \A i \in 1..Len(last.steps) :
         last.steps[i].wrote =>
           \E j \in 1..Len(open) :
             /\ open[j].wrote
             /\ open[j].raw = last.steps[i].raw
             /\ open[j].out = last.steps[i].out

-----------------------------------------------------------------------------
(* SpecStart: CPU-sourced block transfers, colour and monochrome, started  *)
(* with raster ops that use the source and with raster ops that do not,    *)
(* then fed.                                                               *)

StartRops == {204, 102, 240, 85, 0}

StartSetups ==
  { [BaseSetup EXCEPT !.type = ty, !.depth = d, !.flags = fl, !.rop = r, !.clip = cl] :
      ty \in {TGUI_9440, TGUI_9660}, d \in Depths,
      fl \in {TGUI_SRCCPU, TGUI_SRCMONO + TGUI_SRCCPU},
      r \in StartRops, cl \in {FullClip, PartClip} }

InitStart == \E c \in StartSetups : Constructed(c)
NextStart ==
  \/ DriverWrite
  \/ Ready(MaxFeeds) /\ FbWriteB(FeedAddrs, FeedBytes)
  \/ Ready(MaxFeeds) /\ FbWriteL(FeedAddrs, FeedWords)
  \/ Ready(MaxFeeds) /\ AccelWriteB({CmdApert}, {TGUI_BITBLT})
SpecStart == InitStart /\ [][NextStart]_vars

\* the last call started a CPU-sourced block transfer
CpuStart ==
  /\ Started(TGUI_BITBLT)
  /\ SrcMode(tgui) \in {TGUI_SRCCPU, TGUI_SRCMONO + TGUI_SRCCPU}

\* the last call fed data to the transfer
CpuFeed == last.op \in {"fb_b", "fb_l"} /\ last.pre.write_blitter # 0

\* C36: when a CPU-sourced block transfer is started with a ROP that
\* depends on the source, the start invocation writes no pixel and the
\* transfer advances only as data is fed; when the ROP does not depend on
\* the source, the start invocation completes the whole rectangle without
\* any CPU data and leaves the intercept flag clear.
CpuSourcedStart ==
  /\ (CpuStart /\ RopUsesSource(tgui)) =>
       /\ last.steps = <<>>
       /\ tgui.vram = last.pre.vram
       /\ tgui.x = 0 /\ tgui.y = 0
       /\ tgui.write_blitter = 1
  /\ (CpuFeed /\ RopUsesSource(last.pre)) =>
       /\ last.steps # <<>>
       /\ <<tgui.x, tgui.y>> # <<last.pre.x, last.pre.y>>
  /\ (CpuStart /\ ~RopUsesSource(tgui)) =>
       /\ Len(last.steps) = (tgui.size_x + 1) * (tgui.size_y + 1)
       /\ \A i \in 1..Len(last.steps) :
            /\ last.steps[i].x = (i - 1) % (tgui.size_x + 1)
            /\ last.steps[i].y = (i - 1) \div (tgui.size_x + 1)
            /\ last.steps[i].wrote = last.steps[i].ok
       /\ tgui.y = tgui.size_y + 1
       /\ tgui.write_blitter = 0

\* a transfer with a ROP that ignores the source, restarted and complete
StartCompletes ==
  /\ CpuStart /\ ~RopUsesSource(tgui)
  /\ last.n > 0
  /\ SrcMode(tgui) = TGUI_SRCMONO + TGUI_SRCCPU
  /\ Len(last.steps) = (MaxW + 1) * (MaxH + 1)
  /\ tgui.write_blitter = 0

-----------------------------------------------------------------------------
(* The registers read back after a command, over SpecBres.                 *)

\* the register offsets of the accelerator window, the command register
\* (written by the start itself) left out
KeptOffsets == (0..127) \ {36}

\* C37: executing any drawing command leaves every software-readable
\* accelerator register unchanged, so a register read after the command
\* returns the value last written to it.
RegistersKeptByDrawing ==
  (CommandWritten /\ last.steps # <<>>) =>
    \A o \in KeptOffsets :
      tgui_accel_in(AccelBase + o, tgui) = tgui_accel_in(AccelBase + o, last.pre)

-----------------------------------------------------------------------------
(* SpecAnchor: a colour pattern of 64 different cells, and block and       *)
(* scanline transfers from the display drawn with it in the four           *)
(* directions, from origins on both sides of zero.                         *)

AnchorOrigins == {<<4, 5>>, <<U16(-3), U16(-2)>>, <<6, 7>>, <<9, 8>>}

AnchorSetups ==
  { [BaseSetup EXCEPT !.type = ty, !.crtc21 = Crtc21For(ty), !.rop = 240,
                      !.flags = TGUI_SRCDISP + dir, !.dst_x = d[1], !.dst_y = d[2],
                      !.cmd = 0] :
      ty \in {TGUI_9440, TGUI_9660}, dir \in {0, 256, 512, 768}, d \in AnchorOrigins }

\* the upload of the 64 pattern bytes, 4 bytes per write, then the command
AnchorUpload(cmd) ==
  [k \in 1..16 |->
     <<"write_l", 128 + ((k - 1) * 4),
       <<PatFill((k - 1) * 4), PatFill(((k - 1) * 4) + 1),
         PatFill(((k - 1) * 4) + 2), PatFill(((k - 1) * 4) + 3)>> >>]
  \o << <<"write_b", 36, cmd>> >>

InitAnchor ==
  \E c \in AnchorSetups, cmd \in {TGUI_BITBLT, TGUI_SCANLINE} :
    /\ tgui = TguiInit(c.type, c.depth, c.rowoffset)
    /\ todo = Script(c) \o AnchorUpload(cmd)
    /\ last = InitLast(tgui)
    /\ lanes = <<>>
    /\ blit = BlitInit
NextAnchor == DriverWrite
SpecAnchor == InitAnchor /\ [][NextAnchor]_vars

\* the last call started a block or a scanline transfer
TransferStarted == Started(TGUI_BITBLT) \/ Started(TGUI_SCANLINE)

\* the absolute position of the pixel of step s
AbsX(s) == last.pre.dst_x + (s.x * xdir(last.pre))
AbsY(s) == last.pre.dst_y + (s.y * ydir(last.pre))

\* the table index of the cell of a position
AnchorCell(px, py) == ((py % 8) * 8) + (px % 8)

\* C38: in block and scanline transfers the pattern cell used for a
\* destination pixel depends only on that pixel's absolute position, cell
\* ((dst_y + j*ydir) mod 8, (dst_x + i*xdir) mod 8) for column i and row j,
\* so it is the same whatever the rectangle origin and drawing direction
\* that reach the pixel, and the table index is always in 0..63, also for
\* negative positions.
PatternAnchoring ==
  TransferStarted =>
    LET pd == pattern_data(last.pre)
    IN /\ \A a, b \in 1..64 : pd[a] = pd[b] => a = b
       /\ last.steps # <<>>
       /\ \A i \in 1..Len(last.steps) :
            LET s == last.steps[i]
            IN /\ AnchorCell(AbsX(s), AbsY(s)) \in 0..63
               /\ s.pat = pd[AnchorCell(AbsX(s), AbsY(s)) + 1]
               /\ \A c \in 0..63 : s.pat = pd[c + 1] => c = AnchorCell(AbsX(s), AbsY(s))

\* a block transfer drawn leftwards and upwards across position zero
AnchoredBelowZero ==
  /\ Started(TGUI_BITBLT)
  /\ xdir(tgui) = -1 /\ ydir(tgui) = -1
  /\ \E i \in 1..Len(last.steps) :
       /\ AbsX(last.steps[i]) < 0 /\ AbsY(last.steps[i]) < 0
       /\ last.steps[i].wrote

-----------------------------------------------------------------------------
(* The transform as a permutation, over SpecRemap.                         *)

\* the address whose transform is out, if the transform is a permutation:
\* bits 4..17 back to bits 2..15, bits 2..3 back to bits 16..17
RemapBack(out) ==
  ((((out \div 16) % 16384) * 4) + (((out \div 4) % 4) * 65536))
   + (((out \div RemapWindow) * RemapWindow) + (out % 4))

\* C39: the chain-4 address transform is a bijection on addresses: it maps
\* the range 0..2^18-1 onto itself and preserves all higher bits, so two
\* distinct linear addresses never land on the same video-memory byte.
\* Every address is the transform of exactly one address: RemapBack of it.
DwordRemapPermutation ==
  Remapped =>
    /\ RemapIn < RemapWindow => RemapOut < RemapWindow
    /\ RemapOut \div RemapWindow = RemapIn \div RemapWindow
    /\ RemapBack(RemapOut) = RemapIn
    /\ dword_remap(RemapBack(RemapIn)) = RemapIn

\* an address of the window that the transform moves to another one
RemapMoved ==
  /\ Remapped
  /\ RemapIn = 131071
  /\ RemapOut # RemapIn /\ RemapOut < RemapWindow
  /\ RemapBack(RemapOut) = RemapIn
=============================================================================
